---- MODULE Spec2Model ----
(***************************************************************************)
(* Model of the NASA DONKI retrieval pipeline of src/src/nasa_data_retrieval.py *)
(* (validation, normalisation of CME records, CME/GST linking, summary     *)
(* statistics, export), of its fetch layer (date-range policy,             *)
(* RetryHandler, get_cme_data / get_gst_data) and of the entry points      *)
(* (main of nasa_data_retrieval, cli).                                     *)
(*                                                                         *)
(* Python values are tagged records: the tag is field t, the payload has a *)
(* field name of its own per tag.  A dict is a record holding every key    *)
(* the code reads; a key that is not in the dict holds Absent.             *)
(***************************************************************************)
EXTENDS Integers, Sequences, FiniteSets, TLC

VARIABLES
    \* the data pipeline: process_cme_data -> process_gst_data -> generate_summary_statistics
    pc,            \* the stage the pipeline is at
    cme_data,      \* raw CME list (validated by validate_cme_data)
    gst_data,      \* raw GST list (validated by validate_gst_data)
    cme_df,        \* result of process_cme_data
    combined_df,   \* result of process_gst_data
    summary_stats, \* result of generate_summary_statistics
    exc,           \* the exception that ended the pipeline, "none" if none
    \* the fetch layer: get_cme_data / get_gst_data over RetryHandler
    fpc,           \* position inside get_cme_data / get_gst_data
    kind,          \* "CME" for get_cme_data, "GST" for get_gst_data
    start_date,    \* argument start_date
    end_date,      \* argument end_date
    max_retries,   \* RetryHandler.max_retries
    base_delay,    \* RetryHandler.base_delay
    attempt,       \* loop variable of execute_with_retry
    calls,         \* outcomes of the calls of func so far, in order
    sleeps,        \* arguments of the time.sleep calls so far, in order
    date_check,    \* "pending", "passed" or "failed": outcome of validate_date_range
    response,      \* value returned by execute_with_retry, Absent if none
    fexc,          \* exception raised to the caller of get_*_data, NoExc if none
    fresult,       \* value returned by get_*_data, Absent if none
    \* a run of an entry point: main of nasa_data_retrieval, or cli
    mpc,           \* position inside the entry point
    entry,         \* "nasa_data_retrieval" or "cli"
    dotenv_found,  \* what load_dotenv() returns: a .env file was found
    env_key,       \* what os.getenv("NASA_API_KEY") returns, None if unset
    NASA_API_KEY,  \* the module global NASA_API_KEY
    now,           \* what datetime.now() returns
    exit_status,   \* exit status of the process, Absent while it runs
    files,         \* the output directory and the files written into it
    log,           \* the pipeline stages completed so far, in order
    \* RateLimiter.limit_requests: concurrent calls of one wrapped function
    clock,         \* what time.time() returns, in whole seconds
    redis,         \* the Redis store: per key its count and expiry time, or Absent
    max_requests,  \* argument max_requests of limit_requests
    period,        \* argument period of limit_requests
    wrapper,       \* per caller: position in wrapper, current_time, request_count
    \* ConnectionManager: the websocket endpoints and the broadcasts
    active_connections, \* ConnectionManager.active_connections
    endpoint,      \* per websocket: position of its websocket_endpoint coroutine
    client_gone,   \* the websockets whose client has closed the connection
    broadcast,     \* per broadcast: position, iterator index, who runs it
    delivered,     \* per broadcast and websocket: messages sent to it
    stayed,        \* per broadcast: the websockets in the list since it began
    \* AsyncAPIClient.get / post under tenacity's retry
    ac_pc,         \* position inside the retrying call
    session,       \* AsyncAPIClient._session: None, or "open"
    method,        \* "get" or "post"
    attempt_number, \* tenacity's attempt_number
    requests,      \* the outcomes of the network requests made, in order
    waits,         \* the backoff waits made, in order
    ac_result,     \* how the call ended
    \* monitor_request: overlapping calls of one wrapped handler
    handler,       \* per call: position, and how the handler ended
    REQUEST_COUNT, \* the counters with status "success" and "error"
    REQUEST_LATENCY, \* the number of observations of the histogram
    \* error_handler: one call of a wrapped function
    eh_pc,         \* position inside wrapper
    func_outcome,  \* how func ended: a value, or an exception
    wrapper_outcome \* how wrapper ended: a value, or an exception

pipeVars == <<pc, cme_data, gst_data, cme_df, combined_df, summary_stats, exc>>
fetchVars == <<fpc, kind, start_date, end_date, max_retries, base_delay, attempt,
               calls, sleeps, date_check, response, fexc, fresult>>
runVars == <<mpc, entry, dotenv_found, env_key, NASA_API_KEY, now, exit_status, files, log>>
rlVars == <<clock, redis, max_requests, period, wrapper>>
wsVars == <<active_connections, endpoint, client_gone, broadcast, delivered, stayed>>
acVars == <<ac_pc, session, method, attempt_number, requests, waits, ac_result>>
monVars == <<handler, REQUEST_COUNT, REQUEST_LATENCY>>
ehVars == <<eh_pc, func_outcome, wrapper_outcome>>
svcVars == <<rlVars, wsVars, acVars, monVars, ehVars>>
vars == <<pipeVars, fetchVars, runVars, svcVars>>

-----------------------------------------------------------------------------
(* Python values *)

Absent == [t |-> "absent"]
None == [t |-> "None"]
NaN == [t |-> "nan"]
NaT == [t |-> "NaT"]
Str(s) == [t |-> "str", s |-> s]
PyInt(n) == [t |-> "int", n |-> n]
List(l) == [t |-> "list", l |-> l]
\* a string that is ISO-8601 text for the instant sec (seconds since the epoch)
IsoText(sec) == [t |-> "isotext", sec |-> sec]
\* a pandas Timestamp
Timestamp(sec) == [t |-> "ts", sec |-> sec]

Abs(n) == IF n < 0 THEN -n ELSE n

RECURSIVE GCD(_, _)
GCD(a, b) == IF b = 0 THEN a ELSE GCD(b, a % b)

\* a float holding the rational num/den, in lowest terms, den > 0
Float(num, den) ==
    LET g == GCD(Abs(num), Abs(den))
        s == IF den < 0 THEN -1 ELSE 1
    IN [t |-> "float", num |-> (s * num) \div g, den |-> (s * den) \div g]

IsDict(x) == "t" \notin DOMAIN x
IsList(x) == ~IsDict(x) /\ x.t = "list"

\* dict.get(key, default)
Get(d, key, default) == IF d[key] = Absent THEN default ELSE d[key]
\* key in dict
Has(d, key) == d[key] # Absent

\* sub in s, for strings as sequences of characters
Contains(sub, s) ==
    \E i \in 1..(Len(s) - Len(sub) + 1) : SubSeq(s, i, i + Len(sub) - 1) = sub

\* the result of a call: a value, or the exception it raised
Ok(v) == [exc |-> "none", val |-> v]
Raise(e) == [exc |-> e, val |-> Absent]

\* sequence[0]
FirstItem(x) ==
    IF IsDict(x) THEN Raise("KeyError")
    ELSE CASE x.t = "list" -> IF Len(x.l) = 0 THEN Raise("IndexError") ELSE Ok(x.l[1])
           [] x.t = "str" -> IF Len(x.s) = 0 THEN Raise("IndexError") ELSE Ok(Str(<<x.s[1]>>))
           [] OTHER -> Raise("TypeError")

-----------------------------------------------------------------------------
(* Validators *)

\* truth value of a Python object, as tested by "and" / "if"
Truthy(x) ==
    IF IsDict(x) THEN \E key \in DOMAIN x : x[key] # Absent
    ELSE CASE x.t = "None" -> FALSE
           [] x.t = "list" -> Len(x.l) > 0
           [] x.t = "str" -> Len(x.s) > 0
           [] OTHER -> TRUE

\* [field for field in required_fields if field not in record]
MissingFields(record, required_fields) ==
    SelectSeq(required_fields, LAMBDA field : ~Has(record, field))

\* the body of the for loop of validate_cme_data for one element
ValidateCmeEntry(cme) ==
    IF ~IsDict(cme) THEN [exc |-> "CMEDataError", missing |-> <<>>]
    ELSE IF MissingFields(cme, <<"activityID", "startTime">>) # <<>>
    THEN [exc |-> "CMEDataError",
          missing |-> MissingFields(cme, <<"activityID", "startTime">>)]
    ELSE IF Has(cme, "cmeAnalyses") /\ Truthy(cme.cmeAnalyses)
    THEN LET analysis == FirstItem(cme.cmeAnalyses)
         IN IF analysis.exc # "none" THEN [exc |-> analysis.exc, missing |-> <<>>]
            ELSE IF ~IsDict(analysis.val) THEN [exc |-> "CMEDataError", missing |-> <<>>]
            ELSE [exc |-> "none", missing |-> <<>>]
    ELSE [exc |-> "none", missing |-> <<>>]

\* the body of the for loop of validate_gst_data for one element
ValidateGstEntry(gst) ==
    IF ~IsDict(gst) THEN [exc |-> "GSTDataError", missing |-> <<>>]
    ELSE IF MissingFields(gst, <<"gstID", "startTime", "allKpIndex">>) # <<>>
    THEN [exc |-> "GSTDataError",
          missing |-> MissingFields(gst, <<"gstID", "startTime", "allKpIndex">>)]
    ELSE IF ~IsList(Get(gst, "allKpIndex", List(<<>>)))
    THEN [exc |-> "GSTDataError", missing |-> <<>>]
    ELSE [exc |-> "none", missing |-> <<>>]

\* the first position in list order whose loop-body outcome is a raise, 0 if
\* none; outcomes is the sequence of loop-body outcomes of the elements
FirstRejected(outcomes) ==
    IF \E i \in 1..Len(outcomes) : outcomes[i].exc # "none"
    THEN CHOOSE i \in 1..Len(outcomes) :
            /\ outcomes[i].exc # "none"
            /\ \A j \in 1..(i - 1) : outcomes[j].exc = "none"
    ELSE 0

\* validate_cme_data: [exc, at, missing], exc = "none" when it returns normally
validate_cme_data(data) ==
    IF ~IsList(data) THEN [exc |-> "CMEDataError", at |-> 0, missing |-> <<>>]
    ELSE LET i == FirstRejected([k \in 1..Len(data.l) |-> ValidateCmeEntry(data.l[k])])
         IN IF i = 0 THEN [exc |-> "none", at |-> 0, missing |-> <<>>]
            ELSE [exc |-> ValidateCmeEntry(data.l[i]).exc, at |-> i,
                  missing |-> ValidateCmeEntry(data.l[i]).missing]

\* validate_gst_data: [exc, at, missing], exc = "none" when it returns normally
validate_gst_data(data) ==
    IF ~IsList(data) THEN [exc |-> "GSTDataError", at |-> 0, missing |-> <<>>]
    ELSE LET i == FirstRejected([k \in 1..Len(data.l) |-> ValidateGstEntry(data.l[k])])
         IN IF i = 0 THEN [exc |-> "none", at |-> 0, missing |-> <<>>]
            ELSE [exc |-> "GSTDataError", at |-> i,
                  missing |-> ValidateGstEntry(data.l[i]).missing]

-----------------------------------------------------------------------------
(* Normalizer: safe_float_convert, process_cme_data *)

DigitValue(c) ==
    CASE c = "0" -> 0 [] c = "1" -> 1 [] c = "2" -> 2 [] c = "3" -> 3
      [] c = "4" -> 4 [] c = "5" -> 5 [] c = "6" -> 6 [] c = "7" -> 7
      [] c = "8" -> 8 [] c = "9" -> 9 [] OTHER -> -1

RECURSIVE DigitsValue(_)
DigitsValue(s) ==
    IF s = <<>> THEN 0
    ELSE 10 * DigitsValue(SubSeq(s, 1, Len(s) - 1)) + DigitValue(s[Len(s)])

\* float(value): decimal digits parse, any other text is a ValueError,
\* a list or a dict is a TypeError
PyFloat(value) ==
    IF IsDict(value) THEN Raise("TypeError")
    ELSE CASE value.t = "int" -> Ok(Float(value.n, 1))
           [] value.t = "float" -> Ok(value)
           [] value.t = "nan" -> Ok(NaN)
           [] value.t = "str" ->
                IF Len(value.s) > 0 /\ \A i \in 1..Len(value.s) : DigitValue(value.s[i]) >= 0
                THEN Ok(Float(DigitsValue(value.s), 1))
                ELSE Raise("ValueError")
           [] value.t = "isotext" -> Raise("ValueError")
           [] OTHER -> Raise("TypeError")

safe_float_convert(value) ==
    IF value = None THEN NaN
    ELSE IF PyFloat(value).exc = "none" THEN PyFloat(value).val
    ELSE NaN

\* pd.to_datetime of one scalar: None gives NaT, text that is no date raises
to_datetime(value) ==
    CASE value = None -> Ok(NaT)
      [] value.t = "isotext" -> Ok(Timestamp(value.sec))
      [] value.t = "ts" -> Ok(value)
      [] value.t = "str" -> Raise("ValueError")
      [] OTHER -> Raise("TypeError")

\* the dict {} that cme.get("cmeAnalyses", [{}]) holds when the key is absent
EmptyAnalysis ==
    [speed |-> Absent, type |-> Absent, principalAngle |-> Absent,
     latitude |-> Absent, longitude |-> Absent]

Unknown == Str(<<"U", "n", "k", "n", "o", "w", "n">>)

\* the body of the for loop of process_cme_data: the entry of one CME
CmeEntry(cme) ==
    LET analysis == FirstItem(Get(cme, "cmeAnalyses", List(<<EmptyAnalysis>>)))
        time == to_datetime(Get(cme, "startTime", None))
    IN IF analysis.exc # "none" THEN Raise(analysis.exc)
       ELSE IF time.exc # "none" THEN Raise(time.exc)
       ELSE IF ~IsDict(analysis.val) THEN Raise("AttributeError")
       ELSE Ok([cmeID |-> Get(cme, "activityID", None),
                cmeStartTime |-> time.val,
                speed |-> safe_float_convert(Get(analysis.val, "speed", None)),
                type |-> Get(analysis.val, "type", Unknown),
                angle |-> safe_float_convert(Get(analysis.val, "principalAngle", None)),
                latitude |-> safe_float_convert(Get(analysis.val, "latitude", None)),
                longitude |-> safe_float_convert(Get(analysis.val, "longitude", None))])

CmeColumns == <<"cmeID", "cmeStartTime", "speed", "type", "angle", "latitude", "longitude">>

\* pd.DataFrame(list of dicts): no row gives a frame with no column
DataFrame(rows, columns) ==
    [columns |-> IF rows = <<>> THEN <<>> ELSE columns, rows |-> rows]

\* the for loop of process_cme_data from element i on, processed so far
RECURSIVE CmeLoop(_, _, _)
CmeLoop(l, i, processed) ==
    IF i > Len(l) THEN Ok(processed)
    ELSE IF CmeEntry(l[i]).exc # "none" THEN Raise(CmeEntry(l[i]).exc)
    ELSE CmeLoop(l, i + 1, Append(processed, CmeEntry(l[i]).val))

process_cme_data(data) ==
    LET r == CmeLoop(data.l, 1, <<>>)
    IN IF r.exc # "none" THEN r ELSE Ok(DataFrame(r.val, CmeColumns))

-----------------------------------------------------------------------------
(* Linker: process_gst_data *)

\* the CME activity-type marker "-CME-"
CmeMarker == <<"-", "C", "M", "E", "-">>

\* the dict {} that gst.get("allKpIndex", [{}]) holds when the key is absent
EmptyKpSample == [kpIndex |-> Absent]

\* a variant of TimeDifferenceHours that drops the sign of the difference
TimeDifferenceHoursUnsigned(gst_time, cme_time) ==
    IF gst_time = NaT \/ cme_time = NaT THEN NaN
    ELSE Float(Abs(gst_time.sec - cme_time.sec), 3600)

\* (gst_time - cme_time).total_seconds() / 3600; NaT on either side gives nan
TimeDifferenceHours(gst_time, cme_time) ==
    IF gst_time = NaT \/ cme_time = NaT THEN NaN
    ELSE Float(gst_time.sec - cme_time.sec, 3600)

\* gst.get("allKpIndex", [{}])[0].get("kpIndex", 0)
KpIndexOf(gst) ==
    LET first == FirstItem(Get(gst, "allKpIndex", List(<<EmptyKpSample>>)))
    IN IF first.exc # "none" THEN Raise(first.exc)
       ELSE IF ~IsDict(first.val) THEN Raise("AttributeError")
       ELSE Ok(Get(first.val, "kpIndex", PyInt(0)))

\* "-CME-" in event.get("activityID", "")
HasCmeMarker(event) ==
    LET activityID == Get(event, "activityID", Str(<<>>))
    IN IF activityID.t = "str" THEN Ok(Contains(CmeMarker, activityID.s))
       ELSE Raise("TypeError")

\* cme_df[cme_df["cmeID"] == cme_id]: the rows of the table with that id, in table order
CmeMatch(df, cme_id) ==
    IF \A c \in 1..Len(df.columns) : df.columns[c] # "cmeID" THEN Raise("KeyError")
    ELSE Ok(SelectSeq(df.rows, LAMBDA row : row.cmeID = cme_id))

\* a variant of Iloc0 that takes the last matching row
IlocLast(match) == match[Len(match)]

\* cme_match.iloc[0]: the first of the matching rows
Iloc0(match) == match[1]

\* the dict appended to processed for one matching event
LinkedRow(cme_id, cme_row, gst_id, gst_time, kp_index) ==
    [cmeID |-> cme_id,
     cmeStartTime |-> cme_row.cmeStartTime,
     gstID |-> gst_id,
     gstStartTime |-> gst_time,
     timeDifferenceHours |-> TimeDifferenceHours(gst_time, cme_row.cmeStartTime),
     kpIndex |-> kp_index,
     speed |-> cme_row.speed,
     type |-> cme_row.type,
     angle |-> cme_row.angle,
     latitude |-> cme_row.latitude,
     longitude |-> cme_row.longitude]

\* the inner for loop (over linkedEvents) from event i on
RECURSIVE EventLoop(_, _, _, _, _, _, _)
EventLoop(events, i, gst_id, gst_time, kp_index, df, processed) ==
    IF i > Len(events) THEN Ok(processed)
    ELSE IF ~IsDict(events[i]) THEN Raise("AttributeError")
    ELSE IF HasCmeMarker(events[i]).exc # "none" THEN Raise(HasCmeMarker(events[i]).exc)
    ELSE IF ~HasCmeMarker(events[i]).val
    THEN EventLoop(events, i + 1, gst_id, gst_time, kp_index, df, processed)
    ELSE LET cme_id == Get(events[i], "activityID", None)
             cme_match == CmeMatch(df, cme_id)
         IN IF cme_match.exc # "none" THEN Raise(cme_match.exc)
            ELSE IF cme_match.val = <<>>
            THEN EventLoop(events, i + 1, gst_id, gst_time, kp_index, df, processed)
            ELSE EventLoop(events, i + 1, gst_id, gst_time, kp_index, df,
                     Append(processed,
                            LinkedRow(cme_id, Iloc0(cme_match.val), gst_id, gst_time, kp_index)))

\* the body of the outer for loop for one GST: processed, extended by its rows
GstEntry(gst, df, processed) ==
    LET gst_time == to_datetime(Get(gst, "startTime", None))
        kp_index == KpIndexOf(gst)
        events == Get(gst, "linkedEvents", List(<<>>))
    IN IF gst_time.exc # "none" THEN Raise(gst_time.exc)
       ELSE IF kp_index.exc # "none" THEN Raise(kp_index.exc)
       ELSE IF ~IsList(events) THEN Raise("TypeError")
       ELSE EventLoop(events.l, 1, Get(gst, "gstID", None), gst_time.val,
                      kp_index.val, df, processed)

\* a variant of GstLoop that walks the GST list from its end
RECURSIVE GstLoopReversed(_, _, _, _)
GstLoopReversed(l, i, df, processed) ==
    IF i > Len(l) THEN Ok(processed)
    ELSE IF GstEntry(l[Len(l) + 1 - i], df, processed).exc # "none"
    THEN Raise(GstEntry(l[Len(l) + 1 - i], df, processed).exc)
    ELSE GstLoopReversed(l, i + 1, df, GstEntry(l[Len(l) + 1 - i], df, processed).val)

\* the outer for loop from GST i on
RECURSIVE GstLoop(_, _, _, _)
GstLoop(l, i, df, processed) ==
    IF i > Len(l) THEN Ok(processed)
    ELSE IF GstEntry(l[i], df, processed).exc # "none"
    THEN Raise(GstEntry(l[i], df, processed).exc)
    ELSE GstLoop(l, i + 1, df, GstEntry(l[i], df, processed).val)

LinkedColumns ==
    <<"cmeID", "cmeStartTime", "gstID", "gstStartTime", "timeDifferenceHours",
      "kpIndex", "speed", "type", "angle", "latitude", "longitude">>

process_gst_data(data, df) ==
    LET r == GstLoop(data.l, 1, df, <<>>)
    IN IF r.exc # "none" THEN r ELSE Ok(DataFrame(r.val, LinkedColumns))

-----------------------------------------------------------------------------
(* Aggregator: generate_summary_statistics *)

HasColumn(df, col) == \E c \in 1..Len(df.columns) : df.columns[c] = col

\* pd.to_numeric(value, errors='coerce') of one cell: a number stays, text of
\* decimal digits becomes the integer it spells, anything else becomes NaN
ToNumeric(value) ==
    IF value = None THEN NaN
    ELSE IF PyFloat(value).exc # "none" THEN NaN
    ELSE IF value.t = "int" THEN value
    ELSE IF value.t = "str" THEN PyInt(DigitsValue(value.s))
    ELSE PyFloat(value).val

\* the loop "combined_df[col] = pd.to_numeric(combined_df[col], errors='coerce')",
\* which assigns into the frame it was given
CoerceNumericColumns(df) ==
    [df EXCEPT !.rows = [i \in DOMAIN df.rows |->
        [df.rows[i] EXCEPT
            !.speed = IF HasColumn(df, "speed") THEN ToNumeric(@) ELSE @,
            !.kpIndex = IF HasColumn(df, "kpIndex") THEN ToNumeric(@) ELSE @,
            !.angle = IF HasColumn(df, "angle") THEN ToNumeric(@) ELSE @,
            !.latitude = IF HasColumn(df, "latitude") THEN ToNumeric(@) ELSE @,
            !.longitude = IF HasColumn(df, "longitude") THEN ToNumeric(@) ELSE @]]]

\* the non-NaN cells of a column, as floats
ColumnValues(df, col) ==
    {PyFloat(df.rows[i][col]).val : i \in {j \in DOMAIN df.rows : df.rows[j][col] # NaN}}

LessEq(a, b) == a.num * b.den <= b.num * a.den

\* Series.min() and Series.max(): NaN cells are skipped, no cell gives nan
ColumnMin(df, col) ==
    IF ColumnValues(df, col) = {} THEN NaN
    ELSE CHOOSE m \in ColumnValues(df, col) : \A v \in ColumnValues(df, col) : LessEq(m, v)

ColumnMax(df, col) ==
    IF ColumnValues(df, col) = {} THEN NaN
    ELSE CHOOSE m \in ColumnValues(df, col) : \A v \in ColumnValues(df, col) : LessEq(v, m)

NumericColumns == <<"speed", "kpIndex", "angle", "latitude", "longitude">>

\* cme_stats: one entry per numeric column the frame has.  Of the aggregates
\* mean, median, std, min, max the model keeps min and max (the others are
\* real-valued functions of the same cells).
CmeStatistics(df) ==
    [col \in {NumericColumns[c] : c \in {d \in 1..Len(NumericColumns) :
                                             HasColumn(df, NumericColumns[d])}} |->
        [min |-> ColumnMin(df, col), max |-> ColumnMax(df, col)]]

\* event_counts; combined_df['cmeID'] and combined_df['gstID'] need their columns
EventCounts(df) ==
    IF ~HasColumn(df, "cmeID") \/ ~HasColumn(df, "gstID") THEN Raise("KeyError")
    ELSE Ok([total_cmes |-> Cardinality({df.rows[i].cmeID : i \in DOMAIN df.rows}),
             total_gsts |-> Cardinality({df.rows[i].gstID : i \in DOMAIN df.rows}),
             linked_events |-> Len(df.rows)])

\* analyze_cme_gst_correlation: the three coefficients (their values are not
\* represented), KeyError when a column it reads is missing
analyze_cme_gst_correlation(df) ==
    IF ~HasColumn(df, "speed") \/ ~HasColumn(df, "kpIndex")
       \/ ~HasColumn(df, "timeDifferenceHours")
    THEN Raise("KeyError")
    ELSE Ok({"speed_kp_correlation", "time_diff_kp_correlation",
             "speed_time_diff_correlation"})

\* analyze_propagation_times: min and max of timeDifferenceHours
analyze_propagation_times(df) ==
    IF ~HasColumn(df, "timeDifferenceHours") THEN Raise("KeyError")
    ELSE Ok([min_propagation_time |-> ColumnMin(df, "timeDifferenceHours"),
             max_propagation_time |-> ColumnMax(df, "timeDifferenceHours")])

\* generate_summary_statistics on the frame after the in-place coercion
generate_summary_statistics(df) ==
    LET counts == EventCounts(df)
        corr == analyze_cme_gst_correlation(df)
        prop == analyze_propagation_times(df)
    IN IF counts.exc # "none" THEN Raise(counts.exc)
       ELSE IF corr.exc # "none" THEN Raise(corr.exc)
       ELSE IF prop.exc # "none" THEN Raise(prop.exc)
       ELSE Ok([cme_statistics |-> CmeStatistics(df),
                event_counts |-> counts.val,
                correlations |-> corr.val,
                propagation_times |-> prop.val])

-----------------------------------------------------------------------------
(* Inputs: raw records as the DONKI service returns them *)

MaxCme == 2
MaxGst == 2

\* the sequences over S of length at most n
SeqUpTo(S, n) == UNION {[1..k -> S] : k \in 0..n}

IdA == <<"a">> \o CmeMarker \o <<"1">>
IdB == <<"b">> \o CmeMarker \o <<"2">>
\* an identifier of another activity type, and one that ends inside the marker
IdF == <<"f", "-", "F", "L", "R", "-", "1">>
IdN == <<"n", "-", "C", "M", "E">>
NotADate == Str(<<"s", "o", "o", "n">>)

CmeRecord(id, start, analyses) ==
    [activityID |-> id, startTime |-> start, cmeAnalyses |-> analyses]

FullAnalysis ==
    [speed |-> PyInt(800), type |-> Str(<<"C">>), principalAngle |-> PyInt(90),
     latitude |-> PyInt(10), longitude |-> Str(<<"2", "5">>)]

PoorAnalysis ==
    [speed |-> Str(<<"f", "a", "s", "t">>), type |-> Absent, principalAngle |-> None,
     latitude |-> Absent, longitude |-> List(<<>>)]

\* CME records that validate_cme_data accepts and process_cme_data normalises
GoodCmePool ==
    {CmeRecord(Str(IdA), IsoText(0), List(<<FullAnalysis>>)),
     CmeRecord(Str(IdB), IsoText(86400), Absent),
     CmeRecord(Str(IdA), IsoText(86400), List(<<PoorAnalysis, Str(<<"x">>)>>)),
     CmeRecord(Str(IdF), None, List(<<FullAnalysis>>))}

CmePool ==
    GoodCmePool \cup
    {CmeRecord(Str(IdB), IsoText(0), List(<<>>)),
     CmeRecord(Str(IdB), IsoText(0), None),
     CmeRecord(Str(IdA), NotADate, Absent),
     CmeRecord(Str(IdA), Absent, Absent),
     CmeRecord(Absent, Absent, List(<<FullAnalysis>>)),
     CmeRecord(Str(IdA), IsoText(0), List(<<Str(<<"x">>)>>)),
     CmeRecord(Str(IdA), IsoText(0), FullAnalysis),
     Str(<<"x">>)}

\* a JSON object (an error report of the service) and a body that is no JSON
ErrorObject == [error |-> Str(<<"e">>)]
NotJson == [t |-> "text"]

\* what validate_cme_data can be given: lists of records, and a JSON object
CmeLists == {List(l) : l \in SeqUpTo(CmePool, MaxCme)}
CmePayloads == CmeLists \cup {ErrorObject}

GstRecord(id, start, kp, links) ==
    [gstID |-> id, startTime |-> start, allKpIndex |-> kp, linkedEvents |-> links]

Kp(n) == [kpIndex |-> PyInt(n)]
Event(id) == [activityID |-> id]
GstTime == IsoText(45000)

GstPool ==
    {GstRecord(Str(<<"G", "1">>), GstTime, List(<<Kp(5)>>),
               List(<<Event(Str(IdA)), Event(Str(IdB))>>)),
     GstRecord(Str(<<"G", "2">>), GstTime, List(<<Kp(7), Kp(5)>>),
               List(<<Event(Str(IdA)), Event(Str(IdA))>>)),
     GstRecord(Str(<<"G", "3">>), GstTime, List(<<EmptyKpSample>>),
               List(<<Event(Str(IdF)), Event(Absent), Event(Str(IdN)), Event(Str(IdA))>>)),
     GstRecord(Str(<<"G", "4">>), GstTime, List(<<>>), List(<<Event(Str(IdA))>>)),
     GstRecord(Str(<<"G", "5">>), NotADate, List(<<Kp(5)>>), List(<<Event(Str(IdA))>>)),
     GstRecord(Str(<<"G", "6">>), GstTime, List(<<Kp(5)>>), Absent),
     GstRecord(Str(<<"G", "7">>), GstTime, List(<<Kp(5)>>), None),
     GstRecord(Str(<<"G", "8">>), None, List(<<[kpIndex |-> Str(<<"5">>)]>>),
               List(<<Event(Str(IdB))>>)),
     GstRecord(Str(<<"G", "9">>), GstTime, None, Absent),
     GstRecord(Absent, GstTime, Absent, Absent)}

GstLists == {List(l) : l \in SeqUpTo(GstPool, MaxGst)}

-----------------------------------------------------------------------------
(* The data pipeline, stage by stage as main runs it *)

EmptyFrame == DataFrame(<<>>, <<>>)

NoExc == [type |-> "none", call |-> 0]

FetchIdle ==
    /\ fpc = "idle" /\ kind = "CME" /\ start_date = None /\ end_date = None
    /\ max_retries = 0 /\ base_delay = 0 /\ attempt = 0 /\ calls = <<>>
    /\ sleeps = <<>> /\ date_check = "pending" /\ response = Absent
    /\ fexc = NoExc /\ fresult = Absent

\* no output directory, no output file
NoFiles == [dir |-> FALSE, csv |-> Absent, json |-> Absent, xlsx |-> Absent, charts |-> {}]

RunIdle ==
    /\ mpc = "idle" /\ entry = "none" /\ dotenv_found = FALSE /\ env_key = None
    /\ NASA_API_KEY = None /\ now = None /\ exit_status = Absent
    /\ files = NoFiles /\ log = <<>>

\* the decorators and services of the other modules, before any call
RlIdle ==
    /\ clock = 0 /\ redis = <<>> /\ max_requests = 0 /\ period = 0 /\ wrapper = <<>>

WsIdle ==
    /\ active_connections = <<>> /\ endpoint = <<>> /\ client_gone = {}
    /\ broadcast = <<>> /\ delivered = <<>> /\ stayed = <<>>

AcIdle ==
    /\ ac_pc = "idle" /\ session = None /\ method = "none" /\ attempt_number = 0
    /\ requests = <<>> /\ waits = <<>> /\ ac_result = Absent

MonIdle ==
    /\ handler = <<>> /\ REQUEST_COUNT = [success |-> 0, error |-> 0]
    /\ REQUEST_LATENCY = 0

EhIdle ==
    /\ eh_pc = "idle" /\ func_outcome = Absent /\ wrapper_outcome = Absent

PipeIdle ==
    /\ pc = "idle" /\ cme_data = List(<<>>) /\ gst_data = List(<<>>)
    /\ cme_df = EmptyFrame /\ combined_df = EmptyFrame /\ summary_stats = Absent
    /\ exc = "none"

Init ==
    /\ pc = "validate_cme"
    /\ cme_data \in CmePayloads
    /\ gst_data = List(<<>>)
    /\ cme_df = EmptyFrame
    /\ combined_df = EmptyFrame
    /\ summary_stats = Absent
    /\ exc = "none"
    /\ FetchIdle
    /\ RunIdle
    /\ RlIdle /\ WsIdle /\ AcIdle /\ MonIdle /\ EhIdle

\* A stage that raises leaves pc at that stage and sets exc: the exception
\* propagates to main's handlers and no later stage runs.

\* validate_cme_data(data) on the CME payload
ValidateCme ==
    /\ pc = "validate_cme" /\ exc = "none"
    /\ exc' = validate_cme_data(cme_data).exc
    /\ pc' = IF validate_cme_data(cme_data).exc = "none" THEN "process_cme" ELSE pc
    /\ UNCHANGED <<svcVars, cme_data, gst_data, cme_df, combined_df, summary_stats, fetchVars, runVars>>

\* cme_df = process_cme_data(cme_data)
ProcessCme ==
    /\ pc = "process_cme" /\ exc = "none"
    /\ LET r == process_cme_data(cme_data)
       IN /\ exc' = r.exc
          /\ pc' = IF r.exc = "none" THEN "validate_gst" ELSE pc
          /\ cme_df' = IF r.exc = "none" THEN r.val ELSE cme_df
    /\ UNCHANGED <<svcVars, cme_data, gst_data, combined_df, summary_stats, fetchVars, runVars>>

\* validate_gst_data(data) on the GST payload the service returned
ValidateGst ==
    /\ pc = "validate_gst" /\ exc = "none"
    /\ \E data \in GstLists :
        /\ gst_data' = data
        /\ exc' = validate_gst_data(data).exc
        /\ pc' = IF validate_gst_data(data).exc = "none" THEN "process_gst" ELSE pc
    /\ UNCHANGED <<svcVars, cme_data, cme_df, combined_df, summary_stats, fetchVars, runVars>>

\* combined_df = process_gst_data(gst_data, cme_df)
ProcessGst ==
    /\ pc = "process_gst" /\ exc = "none"
    /\ LET r == process_gst_data(gst_data, cme_df)
       IN /\ exc' = r.exc
          /\ pc' = IF r.exc = "none" THEN "summary" ELSE pc
          /\ combined_df' = IF r.exc = "none" THEN r.val ELSE combined_df
    /\ UNCHANGED <<svcVars, cme_data, gst_data, cme_df, summary_stats, fetchVars, runVars>>

\* summary_stats = generate_summary_statistics(combined_df)
GenerateSummary ==
    /\ pc = "summary" /\ exc = "none"
    /\ combined_df' = CoerceNumericColumns(combined_df)
    /\ LET r == generate_summary_statistics(CoerceNumericColumns(combined_df))
       IN /\ exc' = r.exc
          /\ pc' = IF r.exc = "none" THEN "done" ELSE pc
          /\ summary_stats' = r.val
    /\ UNCHANGED <<svcVars, cme_data, gst_data, cme_df, fetchVars, runVars>>

Next == ValidateCme \/ ProcessCme \/ ValidateGst \/ ProcessGst \/ GenerateSummary

Spec == Init /\ [][Next]_vars

-----------------------------------------------------------------------------
(* Properties of the data pipeline, checked under Spec *)

CmeReturned == pc \in {"validate_gst", "process_gst", "summary", "done"}
CmeRaised == pc = "process_cme" /\ exc # "none"
LinkReturned == pc \in {"summary", "done"}
LinkRaised == pc = "process_gst" /\ exc # "none"
SummaryReturned == pc = "done"
SummaryRaised == pc = "summary" /\ exc # "none"

\* the linkedEvents entries of a GST record (none when the key is absent)
EntriesOf(gst) ==
    IF IsList(Get(gst, "linkedEvents", List(<<>>))) THEN Get(gst, "linkedEvents", List(<<>>)).l
    ELSE <<>>

\* the entry carries an activityID that contains "-CME-" and is the cmeID of a table row
EntryQualifies(event, df) ==
    /\ IsDict(event)
    /\ Has(event, "activityID")
    /\ event.activityID.t = "str"
    /\ \E k \in 1..(Len(event.activityID.s) - 4) :
          /\ event.activityID.s[k] = "-" /\ event.activityID.s[k + 1] = "C"
          /\ event.activityID.s[k + 2] = "M" /\ event.activityID.s[k + 3] = "E"
          /\ event.activityID.s[k + 4] = "-"
    /\ \E i \in DOMAIN df.rows : df.rows[i].cmeID = event.activityID

\* a GST record on which the steps before the link test cannot raise: its
\* startTime is a date (or null), it has a Kp sample, and its linkedEvents,
\* if given, is a list of entries whose activityID, if given, is a string
PlainGst(gst) ==
    /\ to_datetime(Get(gst, "startTime", None)).exc = "none"
    /\ Len(gst.allKpIndex.l) > 0
    /\ IsList(Get(gst, "linkedEvents", List(<<>>)))
    /\ \A i \in DOMAIN EntriesOf(gst) :
          ~Has(EntriesOf(gst)[i], "activityID") \/ EntriesOf(gst)[i].activityID.t = "str"

\* the number of rows of the linked table for GST gid and CME cid
RowCount(df, gid, cid) ==
    Cardinality({i \in DOMAIN df.rows : df.rows[i].gstID = gid /\ df.rows[i].cmeID = cid})

\* the positions <<j, i>> of the linkedEvents entries of the GST list
EntryPositions(data) ==
    UNION {{<<j, i>> : i \in DOMAIN EntriesOf(data.l[j])} : j \in DOMAIN data.l}

\* the number of qualifying entries for GST gid and CME cid in the input
QualifyingCount(data, df, gid, cid) ==
    Cardinality({p \in EntryPositions(data) :
        /\ data.l[p[1]].gstID = gid
        /\ EntryQualifies(EntriesOf(data.l[p[1]])[p[2]], df)
        /\ EntriesOf(data.l[p[1]])[p[2]].activityID = cid})

\* the CME ids that occur in the linked table or in the linkedEvents of the input
LinkIds(data, df, out) ==
    {out.rows[i].cmeID : i \in DOMAIN out.rows}
    \cup {df.rows[i].cmeID : i \in DOMAIN df.rows}
    \cup {EntriesOf(data.l[p[1]])[p[2]].activityID :
            p \in {q \in EntryPositions(data) :
                      IsDict(EntriesOf(data.l[q[1]])[q[2]])
                      /\ Has(EntriesOf(data.l[q[1]])[q[2]], "activityID")}}

\* C1: process_gst_data emits a row for a linked-event entry if and only if the
\* entry's activityID contains "-CME-" and equals the cmeID of some row of the
\* CME table; an entry failing either condition is skipped without suppressing
\* the rows of the other entries, and a GST with no qualifying entry
\* contributes no row.  Stated for GST lists on which nothing before the link
\* test raises: process_gst_data returns, and for every GST id and CME id the
\* table holds as many rows as the input holds qualifying entries.
C1_RowIffMarkerAndKnownCme ==
    ((LinkReturned \/ LinkRaised) /\ \A j \in DOMAIN gst_data.l : PlainGst(gst_data.l[j]))
    => /\ LinkReturned
       /\ \A j \in DOMAIN gst_data.l : \A cid \in LinkIds(gst_data, cme_df, combined_df) :
             RowCount(combined_df, gst_data.l[j].gstID, cid)
               = QualifyingCount(gst_data, cme_df, gst_data.l[j].gstID, cid)

\* the known CME ids that the linkedEvents of a GST record name with the marker
LinkedKnownIds(gst, df) ==
    {EntriesOf(gst)[i].activityID :
        i \in {k \in DOMAIN EntriesOf(gst) : EntryQualifies(EntriesOf(gst)[k], df)}}

\* the rows of the linked table that carry the id of GST record j
RowsOfGst(df, gid) == {i \in DOMAIN df.rows : df.rows[i].gstID = gid}

\* C2: the output of process_gst_data holds exactly one row per linked
\* (GST record, CME record) pair: a GST record linked to k distinct known CMEs
\* yields exactly k rows and no (GST record, CME id) pair appears in more than
\* one row, also when linkedEvents names the same CME id more than once.
\* Stated for the GST records whose gstID is unique in the input list.
C2_OneRowPerLinkedPair ==
    LinkReturned =>
        \A j \in DOMAIN gst_data.l :
            (\A k \in DOMAIN gst_data.l : k # j => gst_data.l[k].gstID # gst_data.l[j].gstID)
            => /\ Cardinality(RowsOfGst(combined_df, gst_data.l[j].gstID))
                    = Cardinality(LinkedKnownIds(gst_data.l[j], cme_df))
               /\ \A a, b \in RowsOfGst(combined_df, gst_data.l[j].gstID) :
                    combined_df.rows[a].cmeID = combined_df.rows[b].cmeID => a = b

\* C3: for every row emitted by process_gst_data, timeDifferenceHours equals
\* (gstStartTime - cmeStartTime) in hours with its sign: a row whose GST starts
\* before its CME carries a negative value, and no qualifying entry loses its
\* row because of the sign (the table holds one row per qualifying entry).
C3_TimeDifferenceSigned ==
    LinkReturned =>
        /\ \A i \in DOMAIN combined_df.rows :
            LET row == combined_df.rows[i]
            IN IF row.gstStartTime.t = "ts" /\ row.cmeStartTime.t = "ts"
               THEN /\ row.timeDifferenceHours.t = "float"
                    /\ row.timeDifferenceHours.den > 0
                    /\ row.timeDifferenceHours.num * 3600
                         = row.timeDifferenceHours.den
                             * (row.gstStartTime.sec - row.cmeStartTime.sec)
                    /\ (row.gstStartTime.sec < row.cmeStartTime.sec
                           => row.timeDifferenceHours.num < 0)
               ELSE row.timeDifferenceHours = NaN
        /\ \A j \in DOMAIN gst_data.l : \A cid \in LinkIds(gst_data, cme_df, combined_df) :
              RowCount(combined_df, gst_data.l[j].gstID, cid)
                = QualifyingCount(gst_data, cme_df, gst_data.l[j].gstID, cid)

\* C3 witness: process_gst_data returned a row of a GST that starts before its
\* CME, with a negative, fractional number of hours
C3_Witness ==
    /\ LinkReturned
    /\ \E i \in DOMAIN combined_df.rows :
          /\ combined_df.rows[i].timeDifferenceHours.t = "float"
          /\ combined_df.rows[i].timeDifferenceHours.num < 0
          /\ combined_df.rows[i].timeDifferenceHours.den > 1

\* the Kp value the GST record should carry: its first sample's kpIndex, 0 when
\* it has no sample
ExpectedKp(gst) ==
    IF Len(gst.allKpIndex.l) = 0 THEN PyInt(0)
    ELSE Get(gst.allKpIndex.l[1], "kpIndex", PyInt(0))

\* C4: for every GST record accepted by validate_gst_data, process_gst_data
\* takes as kp_index the kpIndex of the first sample of allKpIndex, and 0 when
\* allKpIndex is empty, without raising (the only exception the Kp lookup of a
\* validated record can raise is IndexError).
C4_KpIndexFirstSampleOrZero ==
    /\ LinkRaised => exc # "IndexError"
    /\ LinkReturned =>
          \A i \in DOMAIN combined_df.rows :
              \E j \in DOMAIN gst_data.l :
                  /\ gst_data.l[j].gstID = combined_df.rows[i].gstID
                  /\ combined_df.rows[i].kpIndex = ExpectedKp(gst_data.l[j])

\* the CME record has no analysis sub-record
NoAnalysis(cme) == ~Has(cme, "cmeAnalyses") \/ ~Truthy(cme.cmeAnalyses)

\* C5: for every accepted CME record without an analysis sub-record (key
\* absent, or present with no elements) process_cme_data yields a record with
\* speed, angle, latitude and longitude all NaN and does not raise, so the
\* result has one record per input CME (IndexError is what the analysis
\* lookup raises on a list with no elements).
C5_NoAnalysisGivesNaN ==
    /\ CmeRaised => exc # "IndexError"
    /\ CmeReturned =>
          /\ Len(cme_df.rows) = Len(cme_data.l)
          /\ \A i \in DOMAIN cme_data.l :
                NoAnalysis(cme_data.l[i])
                => /\ cme_df.rows[i].speed = NaN /\ cme_df.rows[i].angle = NaN
                   /\ cme_df.rows[i].latitude = NaN /\ cme_df.rows[i].longitude = NaN

\* C6: generate_summary_statistics applied to an empty linked dataset returns
\* statistics with total_cmes = 0, total_gsts = 0 and linked_events = 0 and
\* does not raise.
C6_EmptySummaryIsZero ==
    ((SummaryReturned \/ SummaryRaised) /\ combined_df.rows = <<>>)
    => /\ SummaryReturned
       /\ summary_stats.event_counts
            = [total_cmes |-> 0, total_gsts |-> 0, linked_events |-> 0]

\* the records of a raw list whose startTime pd.to_datetime accepts
ParsableRecords(l) ==
    SelectSeq(l, LAMBDA rec : to_datetime(Get(rec, "startTime", None)).exc = "none")

\* C7: a CME or GST record whose startTime cannot be parsed is skipped
\* individually: process_cme_data and process_gst_data do not raise on it
\* (ValueError is what pd.to_datetime raises) and process_cme_data returns the
\* records of all other input records.
C7_UnparsableStartTimeSkipped ==
    /\ CmeRaised => exc # "ValueError"
    /\ LinkRaised => exc # "ValueError"
    /\ CmeReturned =>
          /\ Len(cme_df.rows) = Len(ParsableRecords(cme_data.l))
          /\ \A i \in DOMAIN cme_df.rows :
                cme_df.rows[i].cmeID = ParsableRecords(cme_data.l)[i].activityID

\* the first row of the CME table, in table order, that carries the id
FirstRowWithId(df, cid) ==
    df.rows[CHOOSE i \in DOMAIN df.rows :
                /\ df.rows[i].cmeID = cid
                /\ \A j \in 1..(i - 1) : df.rows[j].cmeID # cid]

\* C14: when rows of the CME table carry the same cmeID, every linked row that
\* process_gst_data emits for that id takes cmeStartTime, speed, type, angle,
\* latitude and longitude from the first such row in table order, and one row
\* is emitted per matching linked-event entry, not one per duplicate CME row.
C14_FirstMatchWins ==
    LinkReturned =>
        /\ \A i \in DOMAIN combined_df.rows :
              LET row == combined_df.rows[i]
                  first == FirstRowWithId(cme_df, row.cmeID)
              IN /\ row.cmeStartTime = first.cmeStartTime
                 /\ row.speed = first.speed
                 /\ row.type = first.type
                 /\ row.angle = first.angle
                 /\ row.latitude = first.latitude
                 /\ row.longitude = first.longitude
        /\ \A j \in DOMAIN gst_data.l : \A i \in DOMAIN cme_df.rows :
              RowCount(combined_df, gst_data.l[j].gstID, cme_df.rows[i].cmeID)
                = QualifyingCount(gst_data, cme_df, gst_data.l[j].gstID, cme_df.rows[i].cmeID)

\* C14 witness: the CME table holds two rows with one cmeID that differ in
\* start time and speed, and process_gst_data returned a row for that id
C14_Witness ==
    /\ LinkReturned
    /\ \E a, b \in DOMAIN cme_df.rows :
          /\ a < b
          /\ cme_df.rows[a].cmeID = cme_df.rows[b].cmeID
          /\ cme_df.rows[a].speed # cme_df.rows[b].speed
          /\ cme_df.rows[a].cmeStartTime # cme_df.rows[b].cmeStartTime
          /\ \E i \in DOMAIN combined_df.rows :
                combined_df.rows[i].cmeID = cme_df.rows[a].cmeID

\* the positions <<j, i>> of the qualifying linkedEvents entries
QualifyingPositions(data, df) ==
    {p \in EntryPositions(data) : EntryQualifies(EntriesOf(data.l[p[1]])[p[2]], df)}

\* position p comes before position q: an earlier GST record, or the same
\* record and an earlier linkedEvents entry
Before(p, q) == p[1] < q[1] \/ (p[1] = q[1] /\ p[2] < q[2])

\* the k-th position of S in that order
KthPosition(S, k) == CHOOSE p \in S : Cardinality({q \in S : Before(q, p)}) = k - 1

\* C15: the rows returned by process_gst_data are ordered by the position of
\* their GST record in the input list and, within one GST record, by the
\* position of the matching entry in its linkedEvents list: the k-th row is
\* the row of the k-th qualifying entry in that order.
C15_RowsInInputOrder ==
    LinkReturned =>
        LET S == QualifyingPositions(gst_data, cme_df)
        IN /\ Len(combined_df.rows) = Cardinality(S)
           /\ \A k \in DOMAIN combined_df.rows :
                 LET p == KthPosition(S, k)
                 IN /\ combined_df.rows[k].gstID = gst_data.l[p[1]].gstID
                    /\ combined_df.rows[k].cmeID = EntriesOf(gst_data.l[p[1]])[p[2]].activityID

\* C15 witness: the GST list holds G2 before G1, and the returned rows are
\* those of G2 followed by those of G1, the latter for CME a then CME b as its
\* linkedEvents list them
C15_Witness ==
    /\ LinkReturned
    /\ Len(gst_data.l) = 2 /\ Len(combined_df.rows) = 4
    /\ gst_data.l[1].gstID = Str(<<"G", "2">>) /\ gst_data.l[2].gstID = Str(<<"G", "1">>)
    /\ combined_df.rows[1].gstID = Str(<<"G", "2">>)
    /\ combined_df.rows[3].gstID = Str(<<"G", "1">>) /\ combined_df.rows[3].cmeID = Str(IdA)
    /\ combined_df.rows[4].gstID = Str(<<"G", "1">>) /\ combined_df.rows[4].cmeID = Str(IdB)

CmeValidated == pc # "validate_cme" \/ exc # "none"
CmeAccepted == pc # "validate_cme"

\* the analysis sub-records of the record, where present, are all mappings
AnalysesAreMappings(cme) ==
    \/ ~Has(cme, "cmeAnalyses")
    \/ cme.cmeAnalyses = None
    \/ /\ IsList(cme.cmeAnalyses)
       /\ \A k \in DOMAIN cme.cmeAnalyses.l : IsDict(cme.cmeAnalyses.l[k])

\* the element is a mapping with activityID and startTime whose analysis
\* sub-records are mappings
WellFormedCme(cme) ==
    /\ IsDict(cme)
    /\ Has(cme, "activityID") /\ Has(cme, "startTime")
    /\ AnalysesAreMappings(cme)

\* the required fields the element lacks, in the order they are required
LackingFields(cme) ==
    IF ~IsDict(cme) THEN <<>>
    ELSE (IF Has(cme, "activityID") THEN <<>> ELSE <<"activityID">>)
         \o (IF Has(cme, "startTime") THEN <<>> ELSE <<"startTime">>)

\* C13: validate_cme_data returns normally if and only if its argument is a
\* list whose every element is a mapping that contains activityID and
\* startTime and whose analysis sub-records, where present, are all mappings;
\* for every other input it raises CMEDataError and no other exception type,
\* at the first violating element in list order, naming the missing fields.
C13_ValidateCmeIff ==
    CmeValidated =>
        /\ CmeAccepted <=> (IsList(cme_data)
                              /\ \A i \in DOMAIN cme_data.l : WellFormedCme(cme_data.l[i]))
        /\ ~CmeAccepted => exc = "CMEDataError"
        /\ (~CmeAccepted /\ IsList(cme_data)) =>
              LET r == validate_cme_data(cme_data)
              IN /\ r.at \in DOMAIN cme_data.l
                 /\ ~WellFormedCme(cme_data.l[r.at])
                 /\ \A j \in 1..(r.at - 1) : WellFormedCme(cme_data.l[j])
                 /\ r.missing = LackingFields(cme_data.l[r.at])

-----------------------------------------------------------------------------
(* Fetcher: validate_date_range, RetryHandler, get_cme_data / get_gst_data *)

\* datetimes are counted in ticks, TicksPerDay to the day, from 2009-01-01 00:00
TicksPerDay == 2
DateWindow == 2
MaxRetriesBound == 3
MaxBaseDelay == 2

Datetime(ticks) == [t |-> "datetime", ticks |-> ticks]

IsLeapYear(y) == y % 4 = 0 /\ (y % 100 # 0 \/ y % 400 = 0)
DaysInYear(y) == IF IsLeapYear(y) THEN 366 ELSE 365

\* datetime.year
RECURSIVE YearFrom(_, _)
YearFrom(y, days) == IF days < DaysInYear(y) THEN y ELSE YearFrom(y + 1, days - DaysInYear(y))
YearOf(d) == YearFrom(2009, d.ticks \div TicksPerDay)

\* timedelta.days of the difference of two datetimes: whole days, rounded down
DeltaDays(a, b) == (a.ticks - b.ticks) \div TicksPerDay

\* validate_date_range: the exception it raises, "none" when it returns
validate_date_range(start, end) ==
    IF start.t # "datetime" \/ end.t # "datetime" THEN "DateRangeError"
    ELSE IF start.ticks > end.ticks THEN "DateRangeError"
    ELSE IF DeltaDays(end, start) > 365 THEN "DateRangeError"
    ELSE IF YearOf(start) < 2010 THEN "DateRangeError"
    ELSE "none"

\* a variant of AfterDateCheck that goes on to the request whatever the check said
AfterDateCheckIgnored(checked) == "request"

\* where get_*_data goes after validate_date_range: on to the request, or out
\* through "except (DateRangeError, ...): raise"
AfterDateCheck(checked) == IF checked = "none" THEN "request" ELSE "raised"

RECURSIVE Pow2(_)
Pow2(n) == IF n = 0 THEN 1 ELSE 2 * Pow2(n - 1)

\* a variant of WaitTime whose exponent is off by one
WaitTimeOffByOne(delay, n) == delay * Pow2(n + 1)

\* wait_time = self.base_delay * (2 ** attempt)
WaitTime(delay, n) == delay * Pow2(n)

\* the exception types that "except requests.exceptions.RequestException" catches
RequestExceptions == {"ConnectionError", "Timeout"}

\* the datetimes around 2010-01-01 and around the same day one year later
DateTimes ==
    {Datetime(365 * TicksPerDay * y + k) : y \in 1..2, k \in (0 - DateWindow)..DateWindow}

\* what the service can answer: a JSON array of records, a JSON object (an
\* error report), or a body that is no JSON
\* payloads of a successful answer: no record, a record the validator accepts,
\* a record it rejects
CmeBodies ==
    {List(<<>>),
     List(<<CmeRecord(Str(IdA), IsoText(0), List(<<FullAnalysis>>))>>),
     List(<<CmeRecord(Str(IdA), Absent, Absent)>>)}

GstBodies ==
    {List(<<>>),
     List(<<GstRecord(Str(<<"G", "1">>), GstTime, List(<<Kp(5)>>), Absent)>>),
     List(<<GstRecord(Str(<<"G", "2">>), GstTime, List(<<Kp(7)>>),
                      List(<<Event(Str(IdA))>>))>>),
     List(<<GstRecord(Str(<<"G", "9">>), GstTime, None, Absent)>>)}

Responses(k) ==
    {[outcome |-> "response", status |-> 200, body |-> b] :
        b \in IF k = "CME" THEN CmeBodies ELSE GstBodies}
    \cup {[outcome |-> "response", status |-> st, body |-> ErrorObject] : st \in {403, 429, 500}}
    \cup {[outcome |-> "response", status |-> st, body |-> NotJson] : st \in {403, 500}}

\* what one call of make_request (requests.get) can do: return a response, or
\* raise a RequestException, or raise something else
CallOutcomes(k) ==
    Responses(k)
    \cup {[outcome |-> e, status |-> 0, body |-> Absent] :
             e \in RequestExceptions \cup {"OtherError"}}

\* a variant of make_request that calls response.raise_for_status() before returning
make_request_raise_for_status(o) ==
    IF o.outcome # "response" THEN Raise(o.outcome)
    ELSE IF o.status >= 400 THEN Raise("HTTPError")
    ELSE Ok(o)

\* make_request: "return requests.get(url, params=params)"; a response is
\* returned whatever its status, an exception of requests.get propagates
make_request(o) ==
    IF o.outcome # "response" THEN Raise(o.outcome) ELSE Ok(o)

\* isinstance(e, requests.exceptions.RequestException); HTTPError is one too,
\* though requests.get does not raise it on its own
IsRequestException(e) == e \in RequestExceptions \cup {"HTTPError"}

FetchInit ==
    /\ PipeIdle
    /\ RunIdle
    /\ RlIdle /\ WsIdle /\ AcIdle /\ MonIdle /\ EhIdle
    /\ fpc = "validate_range"
    /\ kind \in {"CME", "GST"}
    /\ start_date \in DateTimes \cup {None}
    /\ end_date \in DateTimes
    /\ max_retries \in 1..MaxRetriesBound
    /\ base_delay \in 1..MaxBaseDelay
    /\ attempt = 0
    /\ calls = <<>>
    /\ sleeps = <<>>
    /\ date_check = "pending"
    /\ response = Absent
    /\ fexc = NoExc
    /\ fresult = Absent

\* validate_date_range(start_date, end_date), first statement of get_*_data
CheckDateRange ==
    /\ fpc = "validate_range"
    /\ LET checked == validate_date_range(start_date, end_date)
       IN /\ date_check' = IF checked = "none" THEN "passed" ELSE "failed"
          /\ fpc' = AfterDateCheck(checked)
          /\ fexc' = IF AfterDateCheck(checked) = "raised"
                     THEN [type |-> checked, call |-> 0] ELSE fexc
    /\ UNCHANGED <<svcVars, kind, start_date, end_date, max_retries, base_delay, attempt,
                   calls, sleeps, response, fresult, pipeVars, runVars>>

\* one iteration of the for loop of execute_with_retry: call func; return its
\* result, or on a RequestException re-raise (last attempt) or sleep and go on;
\* any other exception propagates
Attempt ==
    /\ fpc = "request"
    /\ attempt < max_retries
    /\ \E o \in CallOutcomes(kind) :
        /\ calls' = Append(calls, o)
        /\ IF make_request(o).exc = "none"
           THEN /\ fpc' = "parse"
                /\ response' = make_request(o).val
                /\ UNCHANGED <<attempt, sleeps, fexc>>
           ELSE IF IsRequestException(make_request(o).exc) /\ attempt # max_retries - 1
           THEN /\ sleeps' = Append(sleeps, WaitTime(base_delay, attempt))
                /\ attempt' = attempt + 1
                /\ UNCHANGED <<fpc, fexc, response>>
           ELSE /\ fpc' = "raised"
                /\ fexc' = [type |-> make_request(o).exc, call |-> Len(calls) + 1]
                /\ UNCHANGED <<attempt, sleeps, response>>
    /\ UNCHANGED <<svcVars, kind, start_date, end_date, max_retries, base_delay, date_check,
                   fresult, pipeVars, runVars>>

\* data = response.json(); validate_cme_data(data) or validate_gst_data(data); return data
ParseAndValidate ==
    /\ fpc = "parse"
    /\ LET body == response.body
           checked == IF kind = "CME" THEN validate_cme_data(body).exc
                      ELSE validate_gst_data(body).exc
       IN IF body = NotJson
          THEN /\ fpc' = "raised"
               /\ fexc' = [type |-> "JSONDecodeError", call |-> 0]
               /\ UNCHANGED fresult
          ELSE IF checked # "none"
          THEN /\ fpc' = "raised"
               /\ fexc' = [type |-> checked, call |-> 0]
               /\ UNCHANGED fresult
          ELSE /\ fpc' = "returned"
               /\ fresult' = body
               /\ UNCHANGED fexc
    /\ UNCHANGED <<svcVars, kind, start_date, end_date, max_retries, base_delay, attempt,
                   calls, sleeps, date_check, response, pipeVars, runVars>>

FetchNext == CheckDateRange \/ Attempt \/ ParseAndValidate

SpecFetch == FetchInit /\ [][FetchNext]_vars

-----------------------------------------------------------------------------
(* Properties of the fetch layer, checked under SpecFetch *)

\* C8: validate_date_range(start, end) returns normally if and only if
\* start <= end, the range is at most 365 days and start.year >= 2010; for
\* every other pair of datetimes it raises DateRangeError.
C8_DateRangeAcceptedIff ==
    (date_check # "pending" /\ start_date.t = "datetime" /\ end_date.t = "datetime")
    => (date_check = "passed"
        <=> /\ start_date.ticks <= end_date.ticks
            /\ end_date.ticks - start_date.ticks <= 365 * TicksPerDay
            /\ YearOf(start_date) >= 2010)

RetriedFailure(o) == o.outcome \in {"ConnectionError", "Timeout"}

\* the loop of execute_with_retry has ended (it returned or raised)
RetryEnded == fpc \in {"parse", "returned"} \/ (fpc = "raised" /\ calls # <<>>)

\* C10: execute_with_retry calls func at most max_retries times; after the
\* k-th failed attempt (k = 0, 1, ...) that is not the last it sleeps
\* base_delay * 2^k before the next attempt; it never sleeps after the last
\* attempt; it returns the result of the first successful attempt; after
\* max_retries consecutive failures it raises the error of the last attempt.
C10_RetryWithBackoff ==
    /\ Len(calls) <= max_retries
    /\ \A k \in 1..Len(sleeps) :
          /\ sleeps[k] = base_delay * 2^(k - 1)
          /\ RetriedFailure(calls[k])
    /\ fpc = "request" => Len(sleeps) = Len(calls) /\ Len(calls) < max_retries
    /\ RetryEnded => Len(sleeps) = Len(calls) - 1
    /\ fpc \in {"parse", "returned"}
          => /\ response = calls[Len(calls)]
             /\ response.outcome = "response"
             /\ \A k \in 1..(Len(calls) - 1) : calls[k].outcome # "response"
    /\ (RetryEnded /\ Len(calls) = max_retries /\ \A k \in 1..Len(calls) : RetriedFailure(calls[k]))
          => /\ fpc = "raised"
             /\ fexc = [type |-> calls[max_retries].outcome, call |-> max_retries]
    /\ (fpc = "raised" /\ fexc.type \in {"ConnectionError", "Timeout"})
          => Len(calls) = max_retries /\ fexc.call = max_retries

\* C10 witness: three attempts failed, two sleeps of base_delay and twice
\* base_delay were made, and the third error was raised
C10_Witness ==
    /\ fpc = "raised" /\ max_retries = 3 /\ base_delay = 2
    /\ Len(calls) = 3 /\ sleeps = <<2, 4>>
    /\ fexc = [type |-> "Timeout", call |-> 3]
    /\ calls[1].outcome = "ConnectionError"

\* the outcome of an attempt that the service or the network marks as
\* transient: a rate-limit response, a 5xx response, a connection error
Transient(o) ==
    \/ o.outcome = "ConnectionError"
    \/ o.outcome = "response" /\ (o.status = 429 \/ o.status >= 500)

\* C11: get_cme_data and get_gst_data treat a rate-limit response, a 5xx
\* response and a connection error all as transient: an attempt with such an
\* outcome that is not the last one allowed is followed by a backoff sleep and
\* another attempt (made, or still to be made), and only the outcome of the
\* last allowed attempt ends the fetch.
C11_TransientOutcomesRetried ==
    \A k \in 1..Len(calls) :
        (Transient(calls[k]) /\ k < max_retries)
        => /\ Len(sleeps) >= k
           /\ k < Len(calls) \/ fpc = "request"

\* the service rejected the request for its credentials
Rejected(o) == o.outcome = "response" /\ o.status = 403

\* C12: when the service rejects the request as non-transient (invalid
\* credentials, status 403) the fetch fails at once: the rejected request is
\* the last one, no backoff sleep follows it (a rejected first request is the
\* only request and there is no sleep at all), and the call ends by raising an
\* error, never by returning data.
C12_RejectionFailsImmediately ==
    \A k \in 1..Len(calls) :
        Rejected(calls[k])
        => /\ k = Len(calls)
           /\ Len(sleeps) = k - 1
           /\ fpc \in {"parse", "raised"}
           /\ fpc = "raised" => fexc.type # "none"
           /\ fresult = Absent

\* C12 witness: the first request was rejected with status 403 and the call
\* has ended with an error, after one request and no sleep
C12_Witness ==
    /\ fpc = "raised" /\ Len(calls) = 1 /\ Rejected(calls[1])
    /\ sleeps = <<>> /\ fexc.type \in {"CMEDataError", "GSTDataError"}
    /\ fresult = Absent

-----------------------------------------------------------------------------
(* Exporter: export_results *)

\* dt.tz_convert('UTC').dt.tz_localize(None) of one cell of a datetime column:
\* a timezone-aware Timestamp loses its timezone, NaT stays NaT
TzNaive(value) ==
    IF value.t = "ts" THEN [t |-> "ts_naive", sec |-> value.sec] ELSE value

\* export_df: the copy of the frame with its datetime columns made naive
ExportFrame(df) ==
    [df EXCEPT !.rows = [i \in DOMAIN df.rows |->
        [df.rows[i] EXCEPT !.cmeStartTime = TzNaive(@), !.gstStartTime = TzNaive(@)]]]

\* export_results(combined_df, summary_stats, output_dir) on the file system
\* fs: the directory is made, the CSV gets the columns of the frame as its
\* header line and one line per row, the JSON file gets summary_stats, and the
\* workbook is written when the Excel writer is available (excel_ok), else the
\* call raises after the CSV and JSON files were written
export_results(df, stats, fs, excel_ok) ==
    LET export_df == ExportFrame(df)
        written == [fs EXCEPT !.dir = TRUE,
                              !.csv = [header |-> export_df.columns, rows |-> export_df.rows],
                              !.json = stats]
    IN IF excel_ok
       THEN [exc |-> "none",
             files |-> [written EXCEPT !.xlsx = [combined |-> export_df, stats |-> stats]]]
       ELSE [exc |-> "ImportError", files |-> written]

\* the linked tables process_gst_data returns on validated input: a CME table
\* of at most one record, and the GST lists
LinkedFrames ==
    {process_gst_data(x[2], process_cme_data(x[1]).val).val :
        x \in {y \in {List(l) : l \in SeqUpTo(GoodCmePool, 1)} \X GstLists :
                  /\ validate_gst_data(y[2]).exc = "none"
                  /\ process_gst_data(y[2], process_cme_data(y[1]).val).exc = "none"}}

\* statistics of a dataset without rows: no column statistics, zero counts
ZeroStats ==
    [cme_statistics |-> <<>>,
     event_counts |-> [total_cmes |-> 0, total_gsts |-> 0, linked_events |-> 0],
     correlations |-> {},
     propagation_times |-> <<>>]

\* the statistics handed to export_results together with the frame
StatsOf(df) ==
    IF generate_summary_statistics(CoerceNumericColumns(df)).exc = "none"
    THEN generate_summary_statistics(CoerceNumericColumns(df)).val
    ELSE ZeroStats

ExportInit ==
    /\ FetchIdle
    /\ RlIdle /\ WsIdle /\ AcIdle /\ MonIdle /\ EhIdle
    /\ pc = "idle" /\ cme_data = List(<<>>) /\ gst_data = List(<<>>)
    /\ cme_df = EmptyFrame /\ exc = "none"
    /\ \E df \in LinkedFrames :
          /\ combined_df = CoerceNumericColumns(df)
          /\ summary_stats = StatsOf(df)
    /\ mpc = "export_call" /\ entry = "none" /\ dotenv_found = FALSE /\ env_key = None
    /\ NASA_API_KEY = None /\ now = None /\ exit_status = Absent /\ log = <<>>
    /\ files \in {NoFiles, [NoFiles EXCEPT !.dir = TRUE]}

\* one call export_results(combined_df, summary_stats, output_dir)
ExportResults ==
    /\ mpc = "export_call"
    /\ \E excel_ok \in BOOLEAN :
        LET r == export_results(combined_df, summary_stats, files, excel_ok)
        IN /\ files' = r.files
           /\ exc' = r.exc
           /\ mpc' = IF r.exc = "none" THEN "export_returned" ELSE "export_raised"
    /\ UNCHANGED <<svcVars, pc, cme_data, gst_data, cme_df, combined_df, summary_stats, fetchVars,
                   entry, dotenv_found, env_key, NASA_API_KEY, now, exit_status, log>>

ExportNext == ExportResults

SpecExport == ExportInit /\ [][ExportNext]_vars

\* C17: export_results applied to an empty linked dataset and its statistics
\* creates the output directory and writes combined_analysis.csv consisting of
\* only the header row with the LinkedEvent columns, and
\* summary_statistics.json with all three event counts equal to zero.
C17_EmptyExportHeaderOnly ==
    (mpc \in {"export_returned", "export_raised"} /\ combined_df.rows = <<>>)
    => /\ files.dir
       /\ files.csv = [header |-> LinkedColumns, rows |-> <<>>]
       /\ files.json # Absent
       /\ files.json.event_counts = [total_cmes |-> 0, total_gsts |-> 0, linked_events |-> 0]

-----------------------------------------------------------------------------
(* The entry points: main of nasa_data_retrieval, and cli *)

\* retry_handler = RetryHandler(max_retries=3, base_delay=1)
RetryMaxRetries == 3
RetryBaseDelay == 1
\* start_date = end_date - pd.Timedelta(days=30)
MainWindowDays == 30

\* what os.getenv("NASA_API_KEY") can give: unset, empty, a key
EnvKeys == {None, Str(<<>>), Str(<<"k">>)}

\* a variant of load_api_key that takes the environment as it is
load_api_key_unchecked(found, key) == Ok(key)

\* load_api_key: sys.exit(message) when no .env file was found or the key is
\* unset or empty, else the key
load_api_key(found, key) ==
    IF ~found THEN Raise("SystemExit")
    ELSE IF ~Truthy(key) THEN Raise("SystemExit")
    ELSE Ok(key)

\* a variant of ExitStatusOf that reports success
ExitStatusZero(e) == 0

\* the exit status of a run ended by exception e: sys.exit(1) in every except
\* clause of main, and status 1 as well for sys.exit(message) and for an
\* exception nobody catches
ExitStatusOf(e) == 1

\* the names nasa_data_retrieval defines at module level
ModuleNames ==
    {"RetryHandler", "retry_handler", "load_config", "load_api_key",
     "validate_date_range", "validate_cme_data", "validate_gst_data",
     "get_cme_data", "get_gst_data", "safe_float_convert", "process_cme_data",
     "process_gst_data", "analyze_cme_gst_correlation", "analyze_propagation_times",
     "generate_summary_statistics", "create_speed_kp_scatter",
     "create_propagation_histogram", "create_monthly_events", "export_results", "main"}

\* from nasa_data_retrieval import get_cme_data, get_gst_data, analyze_data, create_visualizations
CliImports == {"get_cme_data", "get_gst_data", "analyze_data", "create_visualizations"}

\* "from module import names": ImportError when the module lacks one of them
ImportFrom(names) == IF names \subseteq ModuleNames THEN "none" ELSE "ImportError"

\* the chart each position of main writes, and the position after it
ChartFile(at) ==
    CASE at = "scatter" -> "speed_kp_correlation.png"
      [] at = "histogram" -> "propagation_times.png"
      [] at = "monthly" -> "monthly_events.png"

AfterChart(at) ==
    CASE at = "scatter" -> "histogram"
      [] at = "histogram" -> "monthly"
      [] at = "monthly" -> "export"

MainInit ==
    /\ PipeIdle
    /\ FetchIdle
    /\ RlIdle /\ WsIdle /\ AcIdle /\ MonIdle /\ EhIdle
    /\ mpc = "start"
    /\ entry \in {"nasa_data_retrieval", "cli"}
    /\ dotenv_found \in BOOLEAN
    /\ env_key \in EnvKeys
    /\ NASA_API_KEY = None
    /\ now \in DateTimes
    /\ exit_status = Absent
    /\ files = NoFiles
    /\ log = <<>>

\* load_api_key(), first statement of main of nasa_data_retrieval
LoadApiKey ==
    /\ mpc = "start" /\ entry = "nasa_data_retrieval"
    /\ NASA_API_KEY' = IF dotenv_found THEN env_key ELSE NASA_API_KEY
    /\ IF load_api_key(dotenv_found, env_key).exc = "none"
       THEN mpc' = "call_get_cme" /\ UNCHANGED exit_status
       ELSE /\ mpc' = "exited"
            /\ exit_status' = ExitStatusOf(load_api_key(dotenv_found, env_key).exc)
    /\ UNCHANGED <<svcVars, entry, dotenv_found, env_key, now, files, log, pipeVars, fetchVars>>

\* the import statement at the top of cli.py; the ImportError is not caught.
\* cli's main, which calls get_cme_data without load_api_key, is defined only
\* after that statement.
CliImport ==
    /\ mpc = "start" /\ entry = "cli"
    /\ IF ImportFrom(CliImports) = "none"
       THEN mpc' = "cli_main" /\ UNCHANGED exit_status
       ELSE mpc' = "exited" /\ exit_status' = ExitStatusOf(ImportFrom(CliImports))
    /\ UNCHANGED <<svcVars, entry, dotenv_found, env_key, NASA_API_KEY, now, files, log,
                   pipeVars, fetchVars>>

\* main calls get_cme_data(start_date, end_date), then get_gst_data(start_date, end_date)
CallGet ==
    /\ mpc \in {"call_get_cme", "call_get_gst"}
    /\ mpc' = IF mpc = "call_get_cme" THEN "in_get_cme" ELSE "in_get_gst"
    /\ kind' = IF mpc = "call_get_cme" THEN "CME" ELSE "GST"
    /\ start_date' = Datetime(now.ticks - MainWindowDays * TicksPerDay)
    /\ end_date' = now
    /\ max_retries' = RetryMaxRetries
    /\ base_delay' = RetryBaseDelay
    /\ attempt' = 0 /\ calls' = <<>> /\ sleeps' = <<>>
    /\ date_check' = "pending" /\ response' = Absent
    /\ fexc' = NoExc /\ fresult' = Absent
    /\ fpc' = "validate_range"
    /\ UNCHANGED <<svcVars, entry, dotenv_found, env_key, NASA_API_KEY, now, exit_status, files, log,
                   pipeVars>>

\* get_*_data ends: its result is bound to cme_data / gst_data, or its
\* exception reaches an except clause of main, which calls sys.exit(1)
ReturnFromGet ==
    /\ mpc \in {"in_get_cme", "in_get_gst"}
    /\ fpc \in {"returned", "raised"}
    /\ IF fpc = "returned"
       THEN /\ cme_data' = IF kind = "CME" THEN fresult ELSE cme_data
            /\ gst_data' = IF kind = "GST" THEN fresult ELSE gst_data
            /\ mpc' = IF kind = "CME" THEN "call_get_gst" ELSE "process_cme"
            /\ log' = log \o <<<<"fetch", kind>>, <<"validate", kind>>>>
            /\ UNCHANGED <<exit_status, exc>>
       ELSE /\ mpc' = "exited"
            /\ exit_status' = ExitStatusOf(fexc.type)
            /\ exc' = fexc.type
            /\ log' = IF response # Absent THEN Append(log, <<"fetch", kind>>) ELSE log
            /\ UNCHANGED <<cme_data, gst_data>>
    /\ UNCHANGED <<svcVars, pc, cme_df, combined_df, summary_stats, fetchVars,
                   entry, dotenv_found, env_key, NASA_API_KEY, now, files>>

\* cme_df = process_cme_data(cme_data)
MainProcessCme ==
    /\ mpc = "process_cme"
    /\ LET r == process_cme_data(cme_data)
       IN IF r.exc = "none"
          THEN /\ cme_df' = r.val /\ mpc' = "process_gst"
               /\ log' = Append(log, <<"normalize", "CME">>)
               /\ UNCHANGED <<exit_status, exc>>
          ELSE /\ mpc' = "exited" /\ exit_status' = ExitStatusOf(r.exc) /\ exc' = r.exc
               /\ UNCHANGED <<cme_df, log>>
    /\ UNCHANGED <<svcVars, pc, cme_data, gst_data, combined_df, summary_stats, fetchVars,
                   entry, dotenv_found, env_key, NASA_API_KEY, now, files>>

\* combined_df = process_gst_data(gst_data, cme_df)
MainProcessGst ==
    /\ mpc = "process_gst"
    /\ LET r == process_gst_data(gst_data, cme_df)
       IN IF r.exc = "none"
          THEN /\ combined_df' = r.val /\ mpc' = "makedirs"
               /\ log' = Append(log, <<"link", "GST">>)
               /\ UNCHANGED <<exit_status, exc>>
          ELSE /\ mpc' = "exited" /\ exit_status' = ExitStatusOf(r.exc) /\ exc' = r.exc
               /\ UNCHANGED <<combined_df, log>>
    /\ UNCHANGED <<svcVars, pc, cme_data, gst_data, cme_df, summary_stats, fetchVars,
                   entry, dotenv_found, env_key, NASA_API_KEY, now, files>>

\* os.makedirs(output_dir, exist_ok=True)
MakeOutputDir ==
    /\ mpc = "makedirs"
    /\ files' = [files EXCEPT !.dir = TRUE]
    /\ mpc' = "summary"
    /\ UNCHANGED <<svcVars, pipeVars, fetchVars, entry, dotenv_found, env_key, NASA_API_KEY, now,
                   exit_status, log>>

\* summary_stats = generate_summary_statistics(combined_df)
MainSummary ==
    /\ mpc = "summary"
    /\ combined_df' = CoerceNumericColumns(combined_df)
    /\ LET r == generate_summary_statistics(CoerceNumericColumns(combined_df))
       IN IF r.exc = "none"
          THEN /\ summary_stats' = r.val /\ mpc' = "scatter"
               /\ log' = Append(log, <<"aggregate", "linked">>)
               /\ UNCHANGED <<exit_status, exc>>
          ELSE /\ mpc' = "exited" /\ exit_status' = ExitStatusOf(r.exc) /\ exc' = r.exc
               /\ UNCHANGED <<summary_stats, log>>
    /\ UNCHANGED <<svcVars, pc, cme_data, gst_data, cme_df, fetchVars,
                   entry, dotenv_found, env_key, NASA_API_KEY, now, files>>

\* create_speed_kp_scatter, create_propagation_histogram, create_monthly_events:
\* each saves one chart into the output directory
CreateChart ==
    /\ mpc \in {"scatter", "histogram", "monthly"}
    /\ files' = [files EXCEPT !.charts = @ \cup {ChartFile(mpc)}]
    /\ mpc' = AfterChart(mpc)
    /\ UNCHANGED <<svcVars, pipeVars, fetchVars, entry, dotenv_found, env_key, NASA_API_KEY, now,
                   exit_status, log>>

\* export_results(combined_df, summary_stats, output_dir), then main returns
MainExport ==
    /\ mpc = "export"
    /\ \E excel_ok \in BOOLEAN :
        LET r == export_results(combined_df, summary_stats, files, excel_ok)
        IN /\ files' = r.files
           /\ exc' = r.exc
           /\ mpc' = "exited"
           /\ exit_status' = IF r.exc = "none" THEN 0 ELSE ExitStatusOf(r.exc)
           /\ log' = IF r.exc = "none" THEN Append(log, <<"export", "linked">>) ELSE log
    /\ UNCHANGED <<svcVars, pc, cme_data, gst_data, cme_df, combined_df, summary_stats, fetchVars,
                   entry, dotenv_found, env_key, NASA_API_KEY, now>>

MainNext ==
    \/ LoadApiKey \/ CliImport \/ CallGet
    \/ CheckDateRange \/ Attempt \/ ParseAndValidate
    \/ ReturnFromGet \/ MainProcessCme \/ MainProcessGst \/ MakeOutputDir
    \/ MainSummary \/ CreateChart \/ MainExport

SpecMain == MainInit /\ [][MainNext]_vars

\* main is one sequential thread: it keeps taking its next step until it exits
SpecMainLive == SpecMain /\ WF_vars(MainNext)

-----------------------------------------------------------------------------
(* Properties of the entry points, checked under SpecMain / SpecMainLive *)

\* the date-range check or the structural validation of a payload failed
ValidationFailed == fexc.type \in {"DateRangeError", "CMEDataError", "GSTDataError"}

\* the run has ended with a non-zero exit status
ExitedNonZero == mpc = "exited" /\ exit_status # 0

\* C16: in every run of main in which the date-range check or the structural
\* validation of the CME or GST payload fails, the run terminates with a
\* non-zero exit status, and no output directory and no output file (CSV,
\* JSON, workbook, chart) has been created or written by that run.
C16_NoOutputOnValidationFailure ==
    /\ [](ValidationFailed =>
            /\ files = NoFiles
            /\ mpc \in {"in_get_cme", "in_get_gst", "exited"}
            /\ mpc = "exited" => exit_status # 0)
    /\ (ValidationFailed ~> ExitedNonZero)

\* C16 witness: the CME payload was fetched and validated, the GST payload
\* failed its validation, and the run has exited with status 1 and no output
C16_Witness ==
    /\ mpc = "exited" /\ exit_status = 1
    /\ kind = "GST" /\ fexc.type = "GSTDataError"
    /\ log = <<<<"fetch", "CME">>, <<"validate", "CME">>, <<"fetch", "GST">>>>
    /\ files = NoFiles

\* C18: every entry point that performs fetches terminates fatally at startup
\* when no API credential is available: no fetch request is issued while the
\* credential NASA_API_KEY is unset (or empty), and a run without credential
\* that has left its first statement has exited with a non-zero status.
C18_NoFetchWithoutCredential ==
    /\ calls # <<>> => (Truthy(env_key) /\ NASA_API_KEY = env_key)
    /\ fpc # "idle" => Truthy(NASA_API_KEY)
    /\ (~Truthy(env_key) /\ mpc # "start")
          => (mpc = "exited" /\ exit_status # 0 /\ calls = <<>> /\ fpc = "idle")

\* C18 witness: main of nasa_data_retrieval found a .env file but no
\* NASA_API_KEY, and has exited with status 1 before any request
C18_Witness ==
    /\ entry = "nasa_data_retrieval" /\ dotenv_found /\ env_key = None
    /\ mpc = "exited" /\ exit_status = 1
    /\ calls = <<>> /\ fpc = "idle"

\* the place of a stage in the order fetch, validate, normalize, link,
\* aggregate, export
StageRank(stage) ==
    CASE stage = "fetch" -> 1 [] stage = "validate" -> 2 [] stage = "normalize" -> 3
      [] stage = "link" -> 4 [] stage = "aggregate" -> 5 [] stage = "export" -> 6

\* C20: in every run of main the stages execute in the order fetch, validate,
\* normalize, link, aggregate, export, and no stage starts before the prior
\* stage has completed for all of its input (both the CME and the GST
\* collection): no stage completes work after a later stage has.
C20_StagesInOrder ==
    \A i, j \in DOMAIN log :
        i < j => StageRank(log[i][1]) <= StageRank(log[j][1])

-----------------------------------------------------------------------------
(* rate_limiter.py: RateLimiter.limit_requests, called by concurrent callers *)

NumCallers == 3
MaxClock == 2
MaxRequestsBound == 2
MaxPeriod == 2

Callers == 1..NumCallers

\* key = f"{key_prefix}:{current_time // period}": the window of a call
WindowOf(t, p) == t \div p

Windows == 0..MaxClock

\* Redis deletes a key once its time to live has run out
Live(store, k, t) == store[k] # Absent /\ t < store[k].expire_at

\* pipe.incr(key); pipe.expire(key, period); pipe.execute(): one transaction
\* on the server. INCR of a missing (or expired) key starts from 0.
PipelineExecute(store, k, p, t) ==
    LET count == IF Live(store, k, t) THEN store[k].count + 1 ELSE 1
    IN  [store EXCEPT ![k] = [count |-> count, expire_at |-> t + p]]

IdleWrapper == [pc |-> "called", current_time |-> Absent, request_count |-> Absent]

RateLimiterInit ==
    /\ PipeIdle /\ FetchIdle /\ RunIdle
    /\ WsIdle /\ AcIdle /\ MonIdle /\ EhIdle
    /\ clock = 0
    /\ redis = [k \in Windows |-> Absent]
    /\ max_requests \in 1..MaxRequestsBound
    /\ period \in 1..MaxPeriod
    /\ wrapper = [c \in Callers |-> IdleWrapper]

\* current_time = int(time.time()); key = f"{key_prefix}:{current_time // period}"
ReadCurrentTime(c) ==
    /\ wrapper[c].pc = "called"
    /\ wrapper' = [wrapper EXCEPT ![c].pc = "keyed", ![c].current_time = clock]
    /\ UNCHANGED <<clock, redis, max_requests, period>>
    /\ UNCHANGED <<pipeVars, fetchVars, runVars, wsVars, acVars, monVars, ehVars>>

\* request_count = pipe.execute()[0]
ExecutePipeline(c) ==
    /\ wrapper[c].pc = "keyed"
    /\ LET k == WindowOf(wrapper[c].current_time, period)
       IN  /\ redis' = PipelineExecute(redis, k, period, clock)
           /\ wrapper' = [wrapper EXCEPT ![c].pc = "counted",
                                         ![c].request_count = redis'[k].count]
    /\ UNCHANGED <<clock, max_requests, period>>
    /\ UNCHANGED <<pipeVars, fetchVars, runVars, wsVars, acVars, monVars, ehVars>>

\* if request_count > max_requests: raise Exception(...); return f(*args, **kwargs)
RaiseOrCall(c) ==
    /\ wrapper[c].pc = "counted"
    /\ wrapper' = [wrapper EXCEPT ![c].pc =
                       IF wrapper[c].request_count > max_requests
                       THEN "raised" ELSE "body_ran"]
    /\ UNCHANGED <<clock, redis, max_requests, period>>
    /\ UNCHANGED <<pipeVars, fetchVars, runVars, wsVars, acVars, monVars, ehVars>>

\* a second passes
Tick ==
    /\ clock < MaxClock
    /\ clock' = clock + 1
    /\ UNCHANGED <<redis, max_requests, period, wrapper>>
    /\ UNCHANGED <<pipeVars, fetchVars, runVars, wsVars, acVars, monVars, ehVars>>

RateLimiterNext ==
    \/ \E c \in Callers : ReadCurrentTime(c)
    \/ \E c \in Callers : ExecutePipeline(c)
    \/ \E c \in Callers : RaiseOrCall(c)
    \/ Tick

SpecRateLimiter == RateLimiterInit /\ [][RateLimiterNext]_vars

\* the calls of one window: those sharing the value of current_time // period
CallsOfWindow(w) ==
    {c \in Callers : /\ wrapper[c].pc # "called"
                     /\ WindowOf(wrapper[c].current_time, period) = w}

BodiesOfWindow(w) == {c \in CallsOfWindow(w) : wrapper[c].pc = "body_ran"}

\* C21: under any interleaving of concurrent callers the wrapped function body
\* runs at most max_requests times within one window (the calls sharing the
\* same value of current_time // period).
C21_AtMostMaxRequestsPerWindow ==
    \A w \in Windows : Cardinality(BodiesOfWindow(w)) <= max_requests

-----------------------------------------------------------------------------
(* websocket.py: ConnectionManager, websocket_endpoint and POST /broadcast *)

NumSockets == 3
NumBroadcasts == 2

Sockets == 1..NumSockets
Broadcasts == 1..NumBroadcasts

\* the caller of a broadcast that is not a websocket endpoint: broadcast_message
PostBroadcast == 0

\* list.remove(x): drops the first occurrence of x
ListRemove(l, x) ==
    LET i == CHOOSE k \in 1..Len(l) : l[k] = x /\ \A j \in 1..(k - 1) : l[j] # x
    IN  SubSeq(l, 1, i - 1) \o SubSeq(l, i + 1, Len(l))

Elements(l) == {l[k] : k \in 1..Len(l)}

IdleBroadcast == [pc |-> "idle", i |-> 0, owner |-> PostBroadcast, removed_before |-> {}]

\* what connection.send_text does on a websocket whose client is gone: the
\* frame is still written, or the send raises
SendOutcomes(s) ==
    IF s \in client_gone THEN {"sent", "WebSocketDisconnect", "RuntimeError"}
    ELSE {"sent"}

WebsocketInit ==
    /\ PipeIdle /\ FetchIdle /\ RunIdle
    /\ RlIdle /\ AcIdle /\ MonIdle /\ EhIdle
    /\ active_connections = <<>>
    /\ endpoint = [s \in Sockets |-> "new"]
    /\ client_gone = {}
    /\ broadcast = [b \in Broadcasts |-> IdleBroadcast]
    /\ delivered = [b \in Broadcasts |-> [s \in Sockets |-> 0]]
    /\ stayed = [b \in Broadcasts |-> {}]

\* websocket_endpoint is called: await manager.connect(websocket) reaches
\* await websocket.accept()
Accept(s) ==
    /\ endpoint[s] = "new"
    /\ endpoint' = [endpoint EXCEPT ![s] = "accepting"]
    /\ UNCHANGED <<active_connections, client_gone, broadcast, delivered, stayed>>
    /\ UNCHANGED <<pipeVars, fetchVars, runVars, rlVars, acVars, monVars, ehVars>>

\* connect: self.active_connections.append(websocket); then the endpoint
\* waits in websocket.receive_text()
Connect(s) ==
    /\ endpoint[s] = "accepting"
    /\ active_connections' = Append(active_connections, s)
    /\ endpoint' = [endpoint EXCEPT ![s] = "receiving"]
    /\ UNCHANGED <<client_gone, broadcast, delivered, stayed>>
    /\ UNCHANGED <<pipeVars, fetchVars, runVars, rlVars, acVars, monVars, ehVars>>

\* the client of an accepted websocket closes the connection
ClientClose(s) ==
    /\ endpoint[s] \in {"receiving", "broadcasting"}
    /\ s \notin client_gone
    /\ client_gone' = client_gone \cup {s}
    /\ UNCHANGED <<active_connections, endpoint, broadcast, delivered, stayed>>
    /\ UNCHANGED <<pipeVars, fetchVars, runVars, rlVars, acVars, monVars, ehVars>>

\* disconnect: self.active_connections.remove(websocket)
disconnect(s) ==
    /\ active_connections' = ListRemove(active_connections, s)
    /\ stayed' = [b \in Broadcasts |->
                     IF broadcast[b].pc = "running" THEN stayed[b] \ {s} ELSE stayed[b]]

\* receive_text raises WebSocketDisconnect; except: manager.disconnect(websocket)
ReceiveDisconnect(s) ==
    /\ endpoint[s] = "receiving"
    /\ s \in client_gone
    /\ disconnect(s)
    /\ endpoint' = [endpoint EXCEPT ![s] = "closed"]
    /\ UNCHANGED <<client_gone, broadcast, delivered>>
    /\ UNCHANGED <<pipeVars, fetchVars, runVars, rlVars, acVars, monVars, ehVars>>

\* broadcast is entered: the for statement takes an iterator over the list
StartBroadcast(b, owner) ==
    /\ broadcast[b].pc = "idle"
    /\ \A c \in Broadcasts : c < b => broadcast[c].pc # "idle"
    /\ broadcast' = [broadcast EXCEPT ![b] =
           [pc |-> "running", i |-> 0, owner |-> owner,
            removed_before |-> {s \in Sockets : /\ endpoint[s] = "closed"
                                                /\ s \notin Elements(active_connections)}]]
    /\ stayed' = [stayed EXCEPT ![b] = Elements(active_connections)]

\* data = await websocket.receive_text() returns;
\* await manager.broadcast(f"Update: {data}") begins
ReceiveText(s) ==
    /\ endpoint[s] = "receiving"
    /\ s \notin client_gone
    /\ \E b \in Broadcasts : StartBroadcast(b, s)
    /\ endpoint' = [endpoint EXCEPT ![s] = "broadcasting"]
    /\ UNCHANGED <<active_connections, client_gone, delivered>>
    /\ UNCHANGED <<pipeVars, fetchVars, runVars, rlVars, acVars, monVars, ehVars>>

\* broadcast_message (POST /broadcast): await manager.broadcast(message) begins
BroadcastMessage ==
    /\ \E b \in Broadcasts : StartBroadcast(b, PostBroadcast)
    /\ UNCHANGED <<active_connections, endpoint, client_gone, delivered>>
    /\ UNCHANGED <<pipeVars, fetchVars, runVars, rlVars, acVars, monVars, ehVars>>

\* one turn of for connection in self.active_connections: the list iterator
\* yields the element at its index in the list as it is now, and
\* await connection.send_text(message) sends and suspends
BroadcastSend(b) ==
    /\ broadcast[b].pc = "running"
    /\ broadcast[b].i < Len(active_connections)
    /\ LET connection == active_connections[broadcast[b].i + 1]
           owner == broadcast[b].owner
       IN  \E o \in SendOutcomes(connection) :
             \/ /\ o = "sent"
                /\ delivered' = [delivered EXCEPT ![b][connection] = @ + 1]
                /\ broadcast' = [broadcast EXCEPT ![b].i = @ + 1]
                /\ UNCHANGED <<active_connections, endpoint, stayed>>
             \/ /\ o = "WebSocketDisconnect"
                /\ broadcast' = [broadcast EXCEPT ![b].pc = "raised"]
                \* in websocket_endpoint: except WebSocketDisconnect:
                \* manager.disconnect(websocket), the endpoint's own websocket
                /\ IF owner = PostBroadcast
                   THEN UNCHANGED <<active_connections, endpoint, stayed>>
                   ELSE /\ disconnect(owner)
                        /\ endpoint' = [endpoint EXCEPT ![owner] = "closed"]
                /\ UNCHANGED delivered
             \/ /\ o = "RuntimeError"
                /\ broadcast' = [broadcast EXCEPT ![b].pc = "raised"]
                /\ endpoint' = IF owner = PostBroadcast THEN endpoint
                               ELSE [endpoint EXCEPT ![owner] = "closed"]
                /\ UNCHANGED <<active_connections, delivered, stayed>>
    /\ UNCHANGED client_gone
    /\ UNCHANGED <<pipeVars, fetchVars, runVars, rlVars, acVars, monVars, ehVars>>

\* the iterator is exhausted: broadcast returns, and an endpoint goes back to
\* websocket.receive_text()
BroadcastReturn(b) ==
    /\ broadcast[b].pc = "running"
    /\ broadcast[b].i >= Len(active_connections)
    /\ broadcast' = [broadcast EXCEPT ![b].pc = "returned"]
    /\ endpoint' = IF broadcast[b].owner = PostBroadcast THEN endpoint
                   ELSE [endpoint EXCEPT ![broadcast[b].owner] = "receiving"]
    /\ UNCHANGED <<active_connections, client_gone, delivered, stayed>>
    /\ UNCHANGED <<pipeVars, fetchVars, runVars, rlVars, acVars, monVars, ehVars>>

WebsocketNext ==
    \/ \E s \in Sockets : Accept(s)
    \/ \E s \in Sockets : Connect(s)
    \/ \E s \in Sockets : ClientClose(s)
    \/ \E s \in Sockets : ReceiveDisconnect(s)
    \/ \E s \in Sockets : ReceiveText(s)
    \/ BroadcastMessage
    \/ \E b \in Broadcasts : BroadcastSend(b)
    \/ \E b \in Broadcasts : BroadcastReturn(b)

SpecWebsocket == WebsocketInit /\ [][WebsocketNext]_vars

\* C22: a broadcast that has returned has sent its message exactly once to
\* every websocket that stayed in active_connections for its whole duration,
\* and to no websocket that disconnect had removed before it began.
C22_BroadcastReachesEveryStayer ==
    \A b \in Broadcasts :
        broadcast[b].pc = "returned"
        => /\ \A s \in stayed[b] : delivered[b][s] = 1
           /\ \A s \in broadcast[b].removed_before : delivered[b][s] = 0

-----------------------------------------------------------------------------
(* async_client.py: AsyncAPIClient.get and post under tenacity's retry *)

\* @retry(stop=stop_after_attempt(3), wait=wait_exponential(multiplier=1, min=4, max=10))
StopAfterAttempt == 3
WaitMultiplier == 1
WaitMin == 4
WaitMax == 10

\* _session: None before __aenter__, an open ClientSession inside the
\* async with block, a closed one after __aexit__
Sessions == {None, Str(<<"open">>), Str(<<"closed">>)}

\* how one request on an open session can end: a 2xx response with a JSON
\* body, an error status (raise_for_status), no connection, a body that is
\* not JSON (response.json())
RequestOutcomes ==
    {Ok(Str(<<"json">>)), Raise("ClientResponseError"),
     Raise("ClientConnectorError"), Raise("ContentTypeError")}

\* the body of get / post: what it does to the network, and how it ends
client_call(sess, out) ==
    IF sess = None THEN [request |-> <<>>, result |-> Raise("RuntimeError")]
    ELSE IF sess = Str(<<"closed">>)
         THEN [request |-> <<>>, result |-> Raise("RuntimeError")]
         ELSE [request |-> <<out>>, result |-> out]

\* tenacity's default retry condition, retry_if_exception_type(): any
\* exception raised by the attempt asks for another one
ShouldRetry(result) == result.exc # "none"

\* wait_exponential: multiplier * 2^(attempt_number - 1), kept within min and max
wait_exponential(n) ==
    LET exp == WaitMultiplier * Pow2(n - 1)
        capped == IF exp < WaitMax THEN exp ELSE WaitMax
    IN  IF capped > WaitMin THEN capped ELSE WaitMin

AsyncClientInit ==
    /\ PipeIdle /\ FetchIdle /\ RunIdle
    /\ RlIdle /\ WsIdle /\ MonIdle /\ EhIdle
    /\ session \in Sessions
    /\ method \in {"get", "post"}
    /\ ac_pc = "attempting"
    /\ attempt_number = 1
    /\ requests = <<>>
    /\ waits = <<>>
    /\ ac_result = Absent

\* one attempt of the retrying call: the body of get / post runs; on a
\* result tenacity returns it, on an exception it stops after the last
\* attempt with RetryError, otherwise it sleeps for wait_exponential
ClientAttempt ==
    /\ ac_pc = "attempting"
    /\ \E out \in RequestOutcomes :
         LET call == client_call(session, out)
         IN  /\ requests' = requests \o call.request
             /\ IF ~ShouldRetry(call.result)
                THEN /\ ac_pc' = "done"
                     /\ ac_result' = call.result
                     /\ waits' = waits
                ELSE IF attempt_number >= StopAfterAttempt
                THEN /\ ac_pc' = "done"
                     /\ ac_result' = [exc |-> "RetryError", val |-> Absent,
                                      last_attempt |-> call.result.exc]
                     /\ waits' = waits
                ELSE /\ ac_pc' = "sleeping"
                     /\ ac_result' = ac_result
                     /\ waits' = Append(waits, wait_exponential(attempt_number))
    /\ UNCHANGED <<session, method, attempt_number>>
    /\ UNCHANGED <<pipeVars, fetchVars, runVars, rlVars, wsVars, monVars, ehVars>>

\* the sleep ends: the next attempt begins
ClientWake ==
    /\ ac_pc = "sleeping"
    /\ ac_pc' = "attempting"
    /\ attempt_number' = attempt_number + 1
    /\ UNCHANGED <<session, method, requests, waits, ac_result>>
    /\ UNCHANGED <<pipeVars, fetchVars, runVars, rlVars, wsVars, monVars, ehVars>>

AsyncClientNext == ClientAttempt \/ ClientWake

SpecAsyncClient == AsyncClientInit /\ [][AsyncClientNext]_vars

\* C23: get and post called on a client whose session was never opened fail
\* on the first attempt with RuntimeError, without a retry, without a backoff
\* wait and without any network request.
C23_UnopenedFailsAtOnce ==
    (session = None /\ ac_pc # "attempting")
    => /\ ac_pc = "done"
       /\ ac_result = Raise("RuntimeError")
       /\ attempt_number = 1
       /\ waits = <<>>
       /\ requests = <<>>

-----------------------------------------------------------------------------
(* monitoring.py: monitor_request around an async handler *)

NumCalls == 3

Calls == 1..NumCalls

\* the exception classes that derive from BaseException but not from
\* Exception: an except Exception clause does not catch them
BaseExceptionsOnly == {"CancelledError", "KeyboardInterrupt", "SystemExit"}

IsException(e) == e \notin BaseExceptionsOnly

\* how the awaited handler can end: a result, an exception of the handler, a
\* cancellation of the task while it waits, an interrupt of the process
HandlerOutcomes ==
    {Ok(Str(<<"r">>)), Raise("ValueError"), Raise("HTTPException"),
     Raise("CancelledError"), Raise("KeyboardInterrupt")}

IdleHandler == [pc |-> "idle", outcome |-> Absent, left |-> Absent]

MonitorInit ==
    /\ PipeIdle /\ FetchIdle /\ RunIdle
    /\ RlIdle /\ WsIdle /\ AcIdle /\ EhIdle
    /\ handler = [c \in Calls |-> IdleHandler]
    /\ REQUEST_COUNT = [success |-> 0, error |-> 0]
    /\ REQUEST_LATENCY = 0

\* wrapper is called: start_time = time(); result = await func(*args, **kwargs)
\* suspends
AwaitFunc(c) ==
    /\ handler[c].pc = "idle"
    /\ handler' = [handler EXCEPT ![c].pc = "awaiting"]
    /\ UNCHANGED <<REQUEST_COUNT, REQUEST_LATENCY>>
    /\ UNCHANGED <<pipeVars, fetchVars, runVars, rlVars, wsVars, acVars, ehVars>>

\* the await ends. On a result: the success counter, return result. On an
\* exception caught by except Exception: the error counter, raise. In every
\* case the finally clause observes the latency.
FuncEnds(c) ==
    /\ handler[c].pc = "awaiting"
    /\ \E out \in HandlerOutcomes :
         /\ REQUEST_COUNT' =
              IF out.exc = "none"
              THEN [REQUEST_COUNT EXCEPT !.success = @ + 1]
              ELSE IF IsException(out.exc)
              THEN [REQUEST_COUNT EXCEPT !.error = @ + 1]
              ELSE REQUEST_COUNT
         /\ handler' = [handler EXCEPT ![c] =
                            [pc |-> "completed", outcome |-> out, left |-> out]]
    /\ REQUEST_LATENCY' = REQUEST_LATENCY + 1
    /\ UNCHANGED <<pipeVars, fetchVars, runVars, rlVars, wsVars, acVars, ehVars>>

MonitorNext ==
    \/ \E c \in Calls : AwaitFunc(c)
    \/ \E c \in Calls : FuncEnds(c)

SpecMonitor == MonitorInit /\ [][MonitorNext]_vars

CompletedCalls == {c \in Calls : handler[c].pc = "completed"}

ReturnedCalls == {c \in CompletedCalls : handler[c].outcome.exc = "none"}

\* C24: after any sequence of possibly overlapping calls, the success and
\* error counts of REQUEST_COUNT add up to the number of completed calls,
\* which is also the number of REQUEST_LATENCY observations; the success
\* count is the number of calls whose handler returned normally; and what
\* leaves the wrapper is what the handler returned or raised.
C24_CountsMatchCompletedCalls ==
    /\ REQUEST_COUNT.success + REQUEST_COUNT.error = Cardinality(CompletedCalls)
    /\ REQUEST_LATENCY = Cardinality(CompletedCalls)
    /\ REQUEST_COUNT.success = Cardinality(ReturnedCalls)
    /\ \A c \in CompletedCalls : handler[c].left = handler[c].outcome

-----------------------------------------------------------------------------
(* middleware.py: error_handler around a function *)

MaxMessageLen == 2

\* the texts an exception or a result can carry
Messages == SeqUpTo({"a", "b"}, MaxMessageLen)

\* class APIError(Exception), the exceptions a wrapped function raises
\* itself, and the ones that only derive from BaseException
RaisedClasses ==
    {"APIError", "ValueError", "KeyError", "ConnectionError", "TypeError",
     "KeyboardInterrupt", "SystemExit"}

RaiseWith(cls, m) == [exc |-> cls, val |-> Str(m)]

\* how func(*args, **kwargs) can end
FuncOutcomes ==
    {Ok(None)} \cup {Ok(Str(m)) : m \in Messages}
    \cup {RaiseWith(cls, m) : cls \in RaisedClasses, m \in Messages}

\* str(e): the argument of the exception; KeyError gives its repr, in quotes
StrOfException(e) ==
    IF e.exc = "KeyError" THEN <<"'">> \o e.val.s \o <<"'">> ELSE e.val.s

\* f"An unexpected error occurred: {str(e)}"
UnexpectedErrorPrefix == <<"An unexpected error occurred: ">>

\* a wrapper that hands on whatever func does
error_handler_passthrough(out) == out

\* wrapper of error_handler: return func(...); except APIError: raise;
\* except Exception as e: raise APIError(f"An unexpected error occurred: {str(e)}")
error_handler(out) ==
    IF out.exc = "none" THEN out
    ELSE IF out.exc = "APIError" THEN out
    ELSE IF IsException(out.exc)
         THEN RaiseWith("APIError", UnexpectedErrorPrefix \o StrOfException(out))
         ELSE out

ErrorHandlerInit ==
    /\ PipeIdle /\ FetchIdle /\ RunIdle
    /\ RlIdle /\ WsIdle /\ AcIdle /\ MonIdle
    /\ eh_pc = "called"
    /\ func_outcome = Absent
    /\ wrapper_outcome = Absent

\* try: func(*args, **kwargs) runs and ends
CallFunc ==
    /\ eh_pc = "called"
    /\ func_outcome' \in FuncOutcomes
    /\ eh_pc' = "func_ended"
    /\ UNCHANGED wrapper_outcome
    /\ UNCHANGED <<pipeVars, fetchVars, runVars, rlVars, wsVars, acVars, monVars>>

\* the return statement or the matching except clause: the wrapper ends
WrapperEnds ==
    /\ eh_pc = "func_ended"
    /\ wrapper_outcome' = error_handler(func_outcome)
    /\ eh_pc' = "wrapper_ended"
    /\ UNCHANGED func_outcome
    /\ UNCHANGED <<pipeVars, fetchVars, runVars, rlVars, wsVars, acVars, monVars>>

ErrorHandlerNext == CallFunc \/ WrapperEnds

SpecErrorHandler == ErrorHandlerInit /\ [][ErrorHandlerNext]_vars

\* the three cases the claim describes: an APIError leaves unchanged, any
\* other Exception leaves as an APIError whose message ends with its text, a
\* return value leaves unchanged
EhCases ==
    /\ func_outcome.exc = "none" => wrapper_outcome = func_outcome
    /\ func_outcome.exc = "APIError" => wrapper_outcome = func_outcome
    /\ (func_outcome.exc \notin {"none", "APIError"} /\ IsException(func_outcome.exc))
       => /\ wrapper_outcome.exc = "APIError"
          /\ wrapper_outcome.val =
                 Str(UnexpectedErrorPrefix \o StrOfException(func_outcome))

\* C25 as stated: every exception that leaves the wrapper is an APIError; an
\* APIError is re-raised unchanged, any other Exception is replaced by an
\* APIError carrying its message, a return value is passed through.
C25_OnlyAPIErrorLeaves ==
    eh_pc = "wrapper_ended"
    => /\ wrapper_outcome.exc \in {"none", "APIError"}
       /\ EhCases

\* C25, amended: every exception deriving from Exception leaves the wrapper
\* as an APIError (an APIError unchanged, any other replaced by an APIError
\* carrying its message), a return value is passed through unchanged, and an
\* exception deriving only from BaseException leaves the wrapper unchanged.
C25_ExceptionsLeaveAsAPIError ==
    eh_pc = "wrapper_ended"
    => /\ EhCases
       /\ IsException(wrapper_outcome.exc)
          => wrapper_outcome.exc \in {"none", "APIError"}
       /\ ~IsException(func_outcome.exc) => wrapper_outcome = func_outcome

\* a function that raised KeyError('a') has left the wrapper as an APIError
C25_Witness ==
    /\ eh_pc = "wrapper_ended"
    /\ func_outcome = RaiseWith("KeyError", <<"a">>)
    /\ wrapper_outcome.exc = "APIError"
    /\ wrapper_outcome.val.s = <<"An unexpected error occurred: ", "'", "a", "'">>

====
